---- MODULE Spec2Model ----
(***************************************************************************)
(* A model of code-loop's sandboxed script runner:                         *)
(*   src/src/runtime/quickjs-runner.js  executeCodeBlock, the job pump,    *)
(*                                      the bridged sdk functions and      *)
(*                                      withDeadline;                      *)
(*   src/unnamed/part_001               the workspace sdk                  *)
(*                                      (createWorkspaceSdk);              *)
(*   src/src/cli.js, src/src/agent/session.js                              *)
(*                                      delegation and the agent loop.     *)
(*                                                                         *)
(* Host JavaScript is single threaded: one action of the model is one      *)
(* stretch of host code that runs without returning to the event loop, or  *)
(* one step of the guest script while the host is inside the interpreter.  *)
(***************************************************************************)
EXTENDS Integers, Sequences, FiniteSets, TLC

(***************************************************************************)
(* Bounds of the model.                                                    *)
(***************************************************************************)
\* the clock runs from 0 to MaxTime
MaxTime == 3
\* number of agent sessions created in one run of the program
MaxSessions == 3
\* largest --max-iterations given on the command line
MaxIterations == 2
\* longest path argument, in segments
MaxPathLen == 2
\* largest maxIterations a script asks sdk.delegateTask for
MaxRequested == 10
\* largest value given to --max-iterations when a delegation's input is studied
MaxCap == 6
\* most messages a delegate's session holds after its prompt when its result is read
MaxReplies == 2
\* the longest contextArtifacts array given to sdk.delegateTask
MaxArtifacts == 3
\* most console calls of one script, and of the script of another execution
MaxLogs == 2
\* the positive timeout handed to executeCodeBlock
TimeoutMs == 2
\* most executeCodeBlock calls made one after another
MaxExecutions == 3
\* most calls of createTodo, updateTodo and deleteTodo made one after another
MaxTodoCalls == 4

(***************************************************************************)
(* Paths.  A path string is modelled by its segments and by whether it     *)
(* starts with "/"; the empty string has no segments and is relative.  An  *)
(* argument that is no string (undefined, a number) is NotAString.         *)
(***************************************************************************)
Segments == {"a", "b", ".", "..", "..a"}

Str(abs, segs) == [isStr |-> TRUE, abs |-> abs, segs |-> segs]
NotAString == [isStr |-> FALSE, abs |-> FALSE, segs |-> <<>>]
EmptyString == Str(FALSE, <<>>)
Dot == Str(FALSE, <<".">>)

\* a thrown error in place of a path
Thrown(message) == [ok |-> FALSE, segs |-> <<>>, message |-> message]
Returned(segs) == [ok |-> TRUE, segs |-> segs, message |-> ""]

RECURSIVE NormalizeSegs(_, _)
\* path.normalize on the segments of an absolute path: "." is dropped and
\* ".." removes the segment before it (and nothing at the filesystem root)
NormalizeSegs(segs, acc) ==
    IF segs = <<>> THEN acc
    ELSE LET s == Head(segs) IN
         IF s = "." THEN NormalizeSegs(Tail(segs), acc)
         ELSE IF s = ".." THEN
              NormalizeSegs(Tail(segs),
                            IF acc = <<>> THEN acc ELSE SubSeq(acc, 1, Len(acc) - 1))
         ELSE NormalizeSegs(Tail(segs), Append(acc, s))

\* path.resolve(root, input), root being absolute and normalized
PathResolve(root, input) ==
    IF input.abs THEN NormalizeSegs(input.segs, <<>>)
    ELSE NormalizeSegs(input.segs, root)

RECURSIVE CommonPrefixLen(_, _)
CommonPrefixLen(p, q) ==
    IF p = <<>> \/ q = <<>> THEN 0
    ELSE IF Head(p) # Head(q) THEN 0
    ELSE 1 + CommonPrefixLen(Tail(p), Tail(q))

\* path.relative(from, to) of two absolute normalized paths: one ".." for
\* every segment of from below the common prefix, then the rest of to
PathRelative(from, to) ==
    LET c == CommonPrefixLen(from, to) IN
    Str(FALSE, [i \in 1..(Len(from) - c) |-> ".."] \o SubSeq(to, c + 1, Len(to)))

\* relative.startsWith('..') on the joined string
StartsWithDotDot(p) ==
    /\ p.segs # <<>>
    /\ Head(p.segs) \in {"..", "..a"}

PathIsAbsolute(p) == p.abs

AccessOutside == "Access outside the workspace directory is prohibited."

\* resolveWithinWorkspace: the absolute path, or the error it throws
ResolveWithinWorkspace(root, relativePath) ==
    LET normalizedInput == IF relativePath.isStr /\ relativePath # EmptyString
                           THEN relativePath ELSE Dot
        absolutePath == PathResolve(root, normalizedInput)
        relative == PathRelative(root, absolutePath)
    IN IF StartsWithDotDot(relative) \/ PathIsAbsolute(relative)
       THEN Thrown(AccessOutside)
       ELSE Returned(absolutePath)

RequiresPath == "requires a non-empty path string."

\* requirePathArgument: whether the argument is accepted (a non-blank string)
RequirePathArgument(value) == value.isStr /\ value # EmptyString

\* normalizeOptionalPath: '.' for a missing or blank argument
NormalizeOptionalPath(value) ==
    IF value.isStr /\ value # EmptyString THEN value ELSE Dot

\* path.dirname of an absolute normalized path
PathDirname(segs) == IF segs = <<>> THEN segs ELSE SubSeq(segs, 1, Len(segs) - 1)

IsPrefix(p, q) == Len(p) <= Len(q) /\ SubSeq(q, 1, Len(p)) = p

(***************************************************************************)
(* The deadline governor.                                                  *)
(***************************************************************************)
NoDeadline == -1

\* createDeadlineInfo: no deadline for a timeout that is not positive
\* (the record {timeoutMs, deadline} is modelled by its deadline)
CreateDeadlineInfo(timeoutMs, clock) ==
    IF timeoutMs <= 0 THEN NoDeadline ELSE clock + timeoutMs

\* withDeadline, line 342: the budget left
Remaining(deadline, clock) == deadline - clock

\* withDeadline, lines 339-348: what it does on entry
\*   "plain"  no deadline: the operation's own promise is returned
\*   "reject" the budget is used up: a rejected promise, no timer
\*   "race"   the operation is raced against a timer
DeadlineMode(deadline, clock) ==
    IF deadline = NoDeadline THEN "plain"
    ELSE IF Remaining(deadline, clock) <= 0 THEN "reject"
    ELSE "race"

Max(a, b) == IF a >= b THEN a ELSE b

\* a timer sized to the whole timeout instead of the remainder
FreshBudgetExpiry(deadline, clock) == clock + TimeoutMs

\* withDeadline, line 357: the instant the timer of a race is set for
TimerExpiry(deadline, clock) == clock + Max(1, Remaining(deadline, clock))

\* shouldInterruptAfterDeadline: the interrupt handler's answer
ShouldInterrupt(deadline, clock) == deadline # NoDeadline /\ clock > deadline

\* errors, by what their message says
Err(label, what) == [label |-> label, what |-> what]
\* createTimeoutError: '<label> timed out after <timeoutMs> ms'
CreateTimeoutError(contextLabel) == Err(contextLabel, "timed out")
IsTimeoutError(e) == e.what = "timed out"

(***************************************************************************)
(* Values.  A JavaScript value is a tagged record; a number is an integer  *)
(* or NaN; an array holds scalars; a plain map holds one entry.            *)
(***************************************************************************)
VUndefined == [t |-> "undefined"]
VNull == [t |-> "null"]
VBool(b) == [t |-> "boolean", b |-> b]
VNum(n) == [t |-> "number", n |-> n, nan |-> FALSE]
VNaN == [t |-> "number", n |-> 0, nan |-> TRUE]
VStr(s) == [t |-> "string", s |-> s]
VArr(items) == [t |-> "array", items |-> items]
VMap(key, val) == [t |-> "map", key |-> key, val |-> val]

Scalars == {VNull, VBool(TRUE), VNum(2), VNaN, VStr("hi")}
\* the values a script returns in this model
ReturnValues == {VNum(2), VStr("hi"), VArr(<<VNaN>>), VMap("k", VNull)}

\* whether a value holds NaN inside an array or a map
HasNestedNaN(v) ==
    \/ v.t = "array" /\ \E i \in 1..Len(v.items) : v.items[i] = VNaN
    \/ v.t = "map" /\ v.val = VNaN

RECURSIVE JoinTexts(_)
JoinTexts(texts) ==
    IF texts = <<>> THEN <<>>
    ELSE IF Len(texts) = 1 THEN Head(texts)
    ELSE Head(texts) \o <<",">> \o JoinTexts(Tail(texts))

\* JSON.stringify of a scalar, as a sequence of tokens: a number that is
\* not finite is written null
ScalarJson(v) ==
    CASE v.t = "null" -> <<"null">>
      [] v.t = "boolean" -> IF v.b THEN <<"true">> ELSE <<"false">>
      [] v.t = "number" -> IF v.nan THEN <<"null">> ELSE <<ToString(v.n)>>
      [] v.t = "string" -> <<"\"", v.s, "\"">>
      [] OTHER -> <<"null">>

\* JSON.stringify of a value
JsonStringify(v) ==
    CASE v.t = "array" ->
             <<"[">> \o JoinTexts([i \in 1..Len(v.items) |-> ScalarJson(v.items[i])]) \o <<"]">>
      [] v.t = "map" -> <<"{", "\"", v.key, "\"", ":">> \o ScalarJson(v.val) \o <<"}">>
      [] OTHER -> ScalarJson(v)

\* the values JSON text denotes: no NaN, no undefined
JsonScalars == Scalars \ {VNaN}
JsonValues ==
    JsonScalars
    \cup {VArr(<<>>)} \cup {VArr(<<a>>) : a \in JsonScalars}
    \cup {VArr(<<a, b>>) : a \in JsonScalars, b \in JsonScalars}
    \cup {VMap("k", a) : a \in JsonScalars}

\* JSON.parse: the value whose text it is given
JsonParse(text) == CHOOSE v \in JsonValues : JsonStringify(v) = text

\* a dump that reads strings and numbers and gives up on everything else
DumpPrimitivesOnly(v) ==
    IF v.t \in {"string", "number", "undefined"} THEN v ELSE VUndefined

\* vm.dump: a string or a number is read directly (getString, getNumber),
\* undefined stays undefined, anything else goes through JSON text
Dump(v) ==
    IF v.t \in {"string", "number", "undefined"} THEN v
    ELSE JsonParse(JsonStringify(v))

\* stringify (quickjs-runner.js): the text shown for a value
Stringify(v) ==
    CASE v.t = "undefined" -> <<"undefined">>
      [] v.t = "null" -> <<"null">>
      [] v.t = "string" -> <<v.s>>
      [] OTHER -> JsonStringify(v)

(***************************************************************************)
(* ExecutionResult.                                                        *)
(***************************************************************************)
\* executeCodeBlock, lines 69-76
SuccessResult(value, logEntries, durationMs) ==
    [success |-> TRUE, value |-> value, logs |-> logEntries,
     formattedValue |-> Stringify(value), durationMs |-> durationMs]

\* a failure result that also carries a value key
FailureResultWithValue(error, logEntries, durationMs) ==
    [success |-> FALSE, value |-> VUndefined, logs |-> logEntries, errorMessage |-> error,
     errorStack |-> "stack", durationMs |-> durationMs]

\* executeCodeBlock, lines 78-85 (errorStack is not modelled beyond its presence)
FailureResult(error, logEntries, durationMs) ==
    [success |-> FALSE, logs |-> logEntries, errorMessage |-> error,
     errorStack |-> "stack", durationMs |-> durationMs]

NoResult == [success |-> FALSE]

(***************************************************************************)
(* State.                                                                  *)
(***************************************************************************)
VARIABLES
    now,                  \* Date.now() / performance.now()
    pc,                   \* where executeCodeBlock stands
    timeoutMs,            \* its timeoutMs argument
    hasDelegateHandler,   \* typeof sandboxOptions.delegateTaskHandler === 'function'
    deadline,             \* deadlineInfo.deadline, or NoDeadline
    start,                \* line 28
    vm,                   \* the context: "none", "live", "disposed"
    running,              \* the host call that is executing guest code ("eval", "jobs", "tick")
    gmain,                \* the script's async function
    gerr,                 \* the rejection a resumed await is about to throw
    contActive,           \* a detached .then continuation is executing
    scriptPromise,        \* the promise evalCode returned
    ops,                  \* the bridged calls in progress, by slot
    pendingSdkOperations, \* line 18
    drainSet,             \* the promises waitForPendingOperations awaits
    pumpActive,           \* startQuickjsJobPump: active
    pumpTimer,            \* startQuickjsJobPump: timer, the handle of the scheduled tick
    pumpScheduled,        \* the pump ticks the event loop holds (setImmediate)
    mainTimer,            \* the timer of the 'code execution' race
    result,               \* what the caller received
    logs,                 \* line 14
    workspaceRoot,        \* normalizedRoot
    workspaceReady,       \* part_001 line 15
    rootExists,           \* the root directory exists on disk
    disk,                 \* the files and directories on disk below the root
    sessions,             \* the agent sessions created so far (AgentSession objects)
    fnArgs,               \* the arguments of a helper function called on its own
    fnResult,             \* what that call returned or threw
    emitted,              \* the console calls the script has made, in order
    peerLogs,             \* the logs array of another execution under way
    guestGlobal,          \* a property of the context's global object: who stored it
    peerGlobal,           \* the same property in the context of another execution
    executions,           \* the executeCodeBlock calls made so far
    todosDb,              \* what data/todos.json holds
    todoCalls,            \* the calls of the todo manager that have ended, in order
    todoOps               \* the calls of the todo manager under way: what each has read

pumpVars == <<pumpActive, pumpTimer, pumpScheduled>>
execVars == <<pc, timeoutMs, hasDelegateHandler, deadline, start, vm, running, gmain,
              gerr, contActive, scriptPromise, ops, pendingSdkOperations,
              drainSet, pumpVars, mainTimer, result, logs>>
fsVars == <<workspaceRoot, workspaceReady, rootExists, disk>>
helperVars == <<fnArgs, fnResult>>
consoleVars == <<emitted, peerLogs>>
contextVars == <<guestGlobal, peerGlobal, executions>>
todoVars == <<todosDb, todoCalls, todoOps>>
vars == <<now, execVars, fsVars, sessions, helperVars, consoleVars, contextVars, todoVars>>

\* the bridged calls of an execution, in the order they are made
Slots == {1, 2}

\* a global property no script has assigned
Unset == 0

\* data/todos.json does not exist
NoTodosFile == [json |-> "none"]

\* the context of the call is the one the call before it used
ReuseContext(global) == global

\* line 16: quickjs.newContext() gives a context with a global object of
\* its own, on which nothing is stored yet
NewContext(global) == Unset
NoTimer == -1
\* startQuickjsJobPump, line 105: timer = null
NoHandle == 0
NoErr == Err("", "")

\* Slot i holds the i-th bridged call of the execution and the host
\* operation it started last.
\*   st     "free": not made yet; "done": over; "inflight": the handler awaits its operation; "settling":
\*          the guest promise is settled and the settlement callback is due;
\*          "processing": that callback is executing guest jobs; "detached":
\*          the call is over and only its operation still runs
\*   why    "" while the operation is awaited or over; "timedOut" or "expired"
\*          when withDeadline rejected and the operation runs on unawaited
\*   arg, text  the path argument and the text to write; value: what the
\*          handler returned
FreeOp == [st |-> "free", kind |-> "", arg |-> NotAString, text |-> "", path |-> <<>>,
           step |-> "", timer |-> NoTimer, cont |-> FALSE, err |-> NoErr, why |-> "",
           value |-> VUndefined]

DoneOp == [FreeOp EXCEPT !.st = "done"]

Pending == [st |-> "pending", value |-> VUndefined, error |-> NoErr, at |-> 0]
Resolved(v, t) == [st |-> "resolved", value |-> v, error |-> NoErr, at |-> t]
Rejected(e, t) == [st |-> "rejected", value |-> VUndefined, error |-> e, at |-> t]

GIdle == [st |-> "idle", op |-> 0]
GRun == [st |-> "run", op |-> 0]
GAwait(i) == [st |-> "await", op |-> i]
GNever == [st |-> "never", op |-> 0]
GDone == [st |-> "done", op |-> 0]
GSpin == [st |-> "spin", op |-> 0]
GInterrupted == [st |-> "interrupted", op |-> 0]

\* the root of the runner's workspace: path.join(process.cwd(), 'workspace')
MainRoot == <<"w">>
\* the sdk calls scripts make in the execution model: one of each function
\* on a file below the root (listFiles on the root itself), and one with a
\* path that leaves the root
GuestCalls ==
    {[fn |-> "readFile", arg |-> Str(FALSE, <<"a">>), text |-> ""],
     [fn |-> "writeFile", arg |-> Str(FALSE, <<"a">>), text |-> "hi"],
     [fn |-> "listFiles", arg |-> EmptyString, text |-> ""],
     [fn |-> "deletePath", arg |-> Str(FALSE, <<"a">>), text |-> ""],
     [fn |-> "writeFile", arg |-> Str(FALSE, <<"..", "b">>), text |-> "hi"],
     [fn |-> "exec", arg |-> EmptyString, text |-> ""],
     [fn |-> "delegateTask", arg |-> EmptyString, text |-> ""]}

ExecInit ==
    /\ now = 0
    /\ pc = "idle"
    /\ timeoutMs \in {0, TimeoutMs}
    /\ hasDelegateHandler \in BOOLEAN
    /\ deadline = NoDeadline
    /\ start = 0
    /\ vm = "none"
    /\ running = "none"
    /\ gmain = GIdle
    /\ gerr = NoErr
    /\ contActive = FALSE
    /\ scriptPromise = Pending
    /\ ops = [i \in Slots |-> FreeOp]
    /\ pendingSdkOperations = {}
    /\ drainSet = {}
    /\ pumpActive = FALSE
    /\ pumpTimer = NoHandle
    /\ pumpScheduled = {}
    /\ mainTimer = NoTimer
    /\ result = NoResult
    /\ logs = <<>>
    /\ emitted = <<>>
    /\ peerLogs = <<>>
    /\ guestGlobal = Unset
    /\ peerGlobal = Unset
    /\ executions = 1
    /\ todosDb = NoTodosFile
    /\ todoOps = <<>>
    /\ todoCalls = <<>>

\* what is on disk at a path below the root
File(path, text) == [path |-> path, kind |-> "file", text |-> text]
Directory(path) == [path |-> path, kind |-> "directory", text |-> ""]

\* the workspace before an execution: untouched, or left by earlier executions
FsInit ==
    /\ workspaceRoot = MainRoot
    /\ workspaceReady = FALSE
    /\ rootExists \in BOOLEAN
    /\ disk = IF rootExists THEN {File(MainRoot \o <<"a">>, "old")} ELSE {}

\* no helper function is called on its own
NoCall == [fn |-> ""]
HelperInit == fnArgs = NoCall /\ fnResult = NoCall

Init == ExecInit /\ FsInit /\ sessions = <<>> /\ HelperInit

(***************************************************************************)
(* The event loop.  Promise reactions (microtasks) run before the loop     *)
(* picks the next timer or I/O completion: while a settled bridged call    *)
(* waits for its settlement callback, nothing else is taken.               *)
(***************************************************************************)
Quiet == running = "none" /\ \A i \in Slots : ops[i].st # "settling"

SlotsIn(st) == {i \in Slots : ops[i].st = st}

\* the guest code that is executing: the script's function or a continuation
GuestActive == running # "none" /\ (gmain.st = "run" \/ contActive)

(***************************************************************************)
(* executeCodeBlock, lines 13-47: up to the evaluation of the program.     *)
(***************************************************************************)
\* lines 15-16: getQuickJS() rejects or newContext() throws; both stand
\* before the try block, so the caller's promise rejects
LoadFails ==
    /\ pc = "idle"
    /\ pc' = "threw"
    /\ UNCHANGED <<now, timeoutMs, hasDelegateHandler, deadline, start, vm, running,
                   gmain, gerr, contActive, scriptPromise, ops, pendingSdkOperations, drainSet, pumpVars, mainTimer, result, logs,
                   fsVars, sessions, helperVars, consoleVars, contextVars, todoVars>>

\* lines 15-47 with a source that does not parse: evalResult.error
EvalCodeSyntaxError ==
    /\ pc = "idle"
    /\ vm' = "live"
    /\ deadline' = CreateDeadlineInfo(timeoutMs, now)
    /\ start' = now
    /\ result' = FailureResult(Err("SyntaxError", "unexpected token"), logs, 0)
    /\ pc' = "finally"
    /\ guestGlobal' = NewContext(guestGlobal)
    /\ UNCHANGED <<now, timeoutMs, hasDelegateHandler, running, gmain, gerr, contActive,
                   scriptPromise, ops, pendingSdkOperations, drainSet,
                   pumpVars, mainTimer, logs, fsVars, sessions, helperVars, consoleVars,
                   peerGlobal, executions, todoVars>>

\* lines 15-41: the context is set up and evalCode calls the script's
\* async function, which runs until its first await
EvalCode ==
    /\ pc = "idle"
    /\ vm' = "live"
    /\ deadline' = CreateDeadlineInfo(timeoutMs, now)
    /\ start' = now
    /\ running' = "eval"
    /\ gmain' = GRun
    /\ pc' = "eval"
    /\ guestGlobal' = NewContext(guestGlobal)
    /\ UNCHANGED <<now, timeoutMs, hasDelegateHandler, gerr, contActive, scriptPromise,
                   ops, pendingSdkOperations, drainSet, pumpVars, mainTimer,
                   result, logs, fsVars, sessions, helperVars, consoleVars,
                   peerGlobal, executions, todoVars>>

(***************************************************************************)
(* The guest script.  What a script does is free: it logs, calls the sdk,  *)
(* awaits, returns, throws or loops.                                       *)
(***************************************************************************)
\* the script awaits the promise of a bridged call
GuestAwaitOp(i) ==
    /\ running # "none"
    /\ gmain.st = "run"
    /\ ops[i].st \in {"inflight", "settling"}
    /\ gmain' = GAwait(i)
    /\ gerr' = NoErr
    /\ UNCHANGED <<now, pc, timeoutMs, hasDelegateHandler, deadline, start, vm, running,
                   contActive, scriptPromise, ops, pendingSdkOperations,
                   drainSet, pumpVars, mainTimer, result, logs, fsVars, sessions, helperVars, consoleVars, contextVars, todoVars>>

\* the script awaits a promise that never settles
GuestAwaitNever ==
    /\ running # "none"
    /\ gmain.st = "run"
    /\ gmain' = GNever
    /\ gerr' = NoErr
    /\ UNCHANGED <<now, pc, timeoutMs, hasDelegateHandler, deadline, start, vm, running,
                   contActive, scriptPromise, ops, pendingSdkOperations,
                   drainSet, pumpVars, mainTimer, result, logs, fsVars, sessions, helperVars, consoleVars, contextVars, todoVars>>

\* the script returns a value: its promise resolves
GuestReturn(v) ==
    /\ running # "none"
    /\ gmain.st = "run"
    /\ gmain' = GDone
    /\ gerr' = NoErr
    /\ scriptPromise' = Resolved(v, now)
    /\ UNCHANGED <<now, pc, timeoutMs, hasDelegateHandler, deadline, start, vm, running,
                   contActive, ops, pendingSdkOperations, drainSet, pumpVars,
                   mainTimer, result, logs, fsVars, sessions, helperVars, consoleVars, contextVars, todoVars>>

\* the script returns what the call it awaited resolved with
GuestReturnResult(i) ==
    /\ ops[i].st = "processing"
    /\ ops[i].kind \in {"readFile", "writeFile", "deletePath"}
    /\ gerr = NoErr
    /\ GuestReturn(ops[i].value)

Levels == {"log", "info", "warn", "error"}
LogEntry(level, text) == [level |-> level, text |-> text]

\* the array the console of another execution pushes to is the one of
\* this execution
PeerPushShared(own, entry) == Append(own, entry)

\* executeCodeBlock, line 14: every execution creates its own array, so a
\* console call of another execution leaves this one's logs as they are
PeerPush(own, entry) == own

\* installConsole, lines 144-149: the script calls console.<level>; the
\* arguments are joined to a text and the entry is pushed
GuestLog(level, text) ==
    /\ GuestActive
    /\ Len(emitted) < MaxLogs
    /\ logs' = Append(logs, LogEntry(level, text))
    /\ emitted' = Append(emitted, LogEntry(level, text))
    /\ UNCHANGED <<now, pc, timeoutMs, hasDelegateHandler, deadline, start, vm, running,
                   gmain, gerr, contActive, scriptPromise, ops, pendingSdkOperations,
                   drainSet, pumpVars, mainTimer, result, fsVars, sessions, helperVars,
                   peerLogs, contextVars, todoVars>>

\* the script of another execution calls its console while this one is
\* under way
PeerLog(level, text) ==
    /\ pc \notin {"idle", "returned", "threw"}
    /\ Len(peerLogs) < MaxLogs
    /\ peerLogs' = Append(peerLogs, LogEntry(level, text))
    /\ logs' = PeerPush(logs, LogEntry(level, text))
    /\ UNCHANGED <<now, pc, timeoutMs, hasDelegateHandler, deadline, start, vm, running,
                   gmain, gerr, contActive, scriptPromise, ops, pendingSdkOperations,
                   drainSet, pumpVars, mainTimer, result, fsVars, sessions, helperVars,
                   emitted, contextVars, todoVars>>

\* the script throws, or lets the rejection of an awaited call escape
GuestThrow ==
    /\ running # "none"
    /\ gmain.st = "run"
    /\ gmain' = GDone
    /\ gerr' = NoErr
    /\ scriptPromise' = Rejected(IF gerr # NoErr THEN gerr ELSE Err("Error", "boom"), now)
    /\ UNCHANGED <<now, pc, timeoutMs, hasDelegateHandler, deadline, start, vm, running,
                   contActive, ops, pendingSdkOperations, drainSet, pumpVars,
                   mainTimer, result, logs, fsVars, sessions, helperVars, consoleVars, contextVars, todoVars>>

\* the script's function enters a loop that never ends.  With a deadline
\* the interrupt handler (line 32) stops it once the deadline has passed and
\* the function's promise rejects; without one the host never gets control back
GuestSpin ==
    /\ running # "none"
    /\ gmain.st = "run"
    /\ gerr' = NoErr
    /\ IF deadline = NoDeadline
       THEN /\ pc' = "hung"
            /\ gmain' = GSpin
            /\ UNCHANGED <<now, scriptPromise>>
       ELSE /\ now' = Max(now, deadline + 1)
            /\ ShouldInterrupt(deadline, now')
            /\ gmain' = GInterrupted
            /\ scriptPromise' = Rejected(Err("InternalError", "interrupted"), now')
            /\ pc' = pc
    /\ UNCHANGED <<timeoutMs, hasDelegateHandler, deadline, start, vm, running,
                   contActive, ops, pendingSdkOperations, drainSet, pumpVars,
                   mainTimer, result, logs, fsVars, sessions, helperVars, consoleVars, contextVars, todoVars>>

\* a detached continuation ends
GuestContEnd ==
    /\ running # "none"
    /\ contActive
    /\ contActive' = FALSE
    /\ UNCHANGED <<now, pc, timeoutMs, hasDelegateHandler, deadline, start, vm, running,
                   gmain, gerr, scriptPromise, ops, pendingSdkOperations,
                   drainSet, pumpVars, mainTimer, result, logs, fsVars, sessions, helperVars, consoleVars, contextVars, todoVars>>

(***************************************************************************)
(* The workspace sdk (part_001) behind the bridged functions.  A call      *)
(* checks its argument, then runs its filesystem operations one after      *)
(* another, each handed to withDeadline.                                   *)
(***************************************************************************)
PathKinds == {"readFile", "writeFile", "listFiles", "deletePath"}

RootRefused == "deletePath cannot remove the workspace root directory."

\* what readFile, writeFile, listFiles and deletePath do before their first
\* await: the absolute path they will work on, or the error they throw
CheckArguments(fn, root, arg) ==
    IF fn = "listFiles"
    THEN ResolveWithinWorkspace(root, NormalizeOptionalPath(arg))
    ELSE IF ~RequirePathArgument(arg) THEN Thrown(RequiresPath)
    ELSE LET absolute == ResolveWithinWorkspace(root, arg) IN
         IF absolute.ok /\ fn = "deletePath" /\ absolute.segs = root
         THEN Thrown(RootRefused)
         ELSE absolute

\* the first filesystem operation of a function once the root exists
FirstOwnStep(fn) ==
    CASE fn = "readFile" -> "readFile"
      [] fn = "writeFile" -> "mkdirDir"
      [] fn = "listFiles" -> "readdir"
      [] fn = "deletePath" -> "lstat"

\* the function goes to its own operation at once
FirstStepUnprepared(fn, ready) == FirstOwnStep(fn)

\* ensureWorkspaceRootExists, lines 30-33: the root is created unless the
\* ready flag is set
FirstStep(fn, ready) == IF ready THEN FirstOwnStep(fn) ELSE "mkdirRoot"

\* the operation that follows a completed one ("" when the function returns)
NextStep(fn, step, isDirectory) ==
    CASE step = "mkdirRoot" -> FirstOwnStep(fn)
      [] step = "mkdirDir" -> "writeFile"
      [] step = "lstat" -> IF isDirectory THEN "rmdir" ELSE "unlink"
      [] OTHER -> ""

\* the label each operation gives withDeadline
StepLabel(fn, step) ==
    CASE step = "mkdirRoot" -> "prepareWorkspace"
      [] step = "delegate" -> "sdk.delegateTask"
      [] OTHER -> fn

\* installSdk, lines 180-182: the handler of sdk.exec calls workspaceSdk.exec.
\* The object createWorkspaceSdk returns (part_001, lines 110-116) has no
\* exec member, so the call throws this TypeError before anything is run
ExecMissing == "workspaceSdk.exec is not a function"

\* the path an operation works on
StepPath(root, path, step) ==
    CASE step = "mkdirRoot" -> root
      [] step = "mkdirDir" -> PathDirname(path)
      [] OTHER -> path

files == {e.path : e \in {x \in disk : x.kind = "file"}}
Entry(path) == CHOOSE e \in disk : e.path = path

\* "file", "directory" or "none": what is at the path itself
KindOf(path) ==
    IF path = workspaceRoot THEN IF rootExists THEN "directory" ELSE "none"
    ELSE IF \E e \in disk : e.path = path THEN Entry(path).kind ELSE "none"

\* the directories of the root that lead to a path
Ancestors(path) ==
    {SubSeq(path, 1, k) : k \in Len(workspaceRoot)..(Len(path) - 1)}

\* what the system finds at a path: its kind, ENOTDIR when a file stands
\* in the way, ENOENT when nothing is there
PathStatus(path) ==
    IF \E q \in Ancestors(path) : KindOf(q) = "file" THEN "ENOTDIR"
    ELSE IF KindOf(path) = "none" THEN "ENOENT"
    ELSE KindOf(path)

IsDirectory(path) == PathStatus(path) = "directory"
Exists(path) == PathStatus(path) \in {"file", "directory"}

\* what a directory holds
Children(path) == {e \in disk : Len(e.path) > Len(path) /\ IsPrefix(path, e.path)}

\* the error code a filesystem operation fails with on the disk as it is
\* ("" when it succeeds)
StepFailure(step, path) ==
    LET status == PathStatus(path) IN
    CASE step = "readFile" ->
             IF status = "file" THEN "" ELSE IF status = "directory" THEN "EISDIR" ELSE status
      [] step = "readdir" ->
             IF status = "directory" THEN "" ELSE IF status = "file" THEN "ENOTDIR" ELSE status
      [] step = "lstat" -> IF Exists(path) THEN "" ELSE status
      [] step = "unlink" ->
             IF status = "file" THEN "" ELSE IF status = "directory" THEN "EISDIR" ELSE status
      [] step = "rmdir" ->
             IF status = "directory"
             THEN IF Children(path) = {} THEN "" ELSE "ENOTEMPTY"
             ELSE IF status = "file" THEN "ENOTDIR" ELSE status
      [] step = "writeFile" ->
             IF status = "file" THEN ""
             ELSE IF status = "directory" THEN "EISDIR"
             ELSE IF status = "ENOENT" /\ IsDirectory(PathDirname(path)) THEN ""
             ELSE status
      [] step = "mkdirDir" ->
             IF ~IsPrefix(workspaceRoot, path) THEN ""
             ELSE IF status = "file" THEN "EEXIST"
             ELSE IF status = "ENOTDIR" THEN "ENOTDIR"
             ELSE ""
      [] OTHER -> ""

\* writeFile leaves a file that is there as it is
DiskAfterKeeping(step, path, text) ==
    IF StepFailure(step, path) # "" \/ step # "writeFile" \/ Exists(path) THEN disk
    ELSE disk \cup {File(path, text)}

\* the disk after an operation: fs.writeFile creates or replaces the file,
\* fs.unlink and fs.rmdir remove the entry, fs.mkdir with recursive creates
\* the directories that are missing
DiskAfter(step, path, text) ==
    IF StepFailure(step, path) # "" THEN disk
    ELSE CASE step = "writeFile" -> {e \in disk : e.path # path} \cup {File(path, text)}
           [] step \in {"unlink", "rmdir"} -> {e \in disk : e.path # path}
           [] step = "mkdirDir" ->
                  disk \cup {Directory(q) : q \in {x \in (Ancestors(path) \cup {path}) :
                                                     /\ Len(x) > Len(workspaceRoot)
                                                     /\ KindOf(x) = "none"}}
           [] OTHER -> disk

\* listFiles, lines 78-82: fs.readdir gives what stands in the directory
\* itself, and each entry is reported by name and kind
Readdir(path) ==
    {[name |-> e.path[Len(e.path)], kind |-> e.kind] :
        e \in {x \in disk : Len(x.path) = Len(path) + 1 /\ IsPrefix(path, x.path)}}

\* the array listFiles returns, as the set of its entries
VEntries(entries) == [t |-> "entries", items |-> entries]

\* what a function returns after its last operation
ReturnValue(fn, path) ==
    CASE fn = "readFile" -> VStr(Entry(path).text)
      [] fn = "writeFile" -> VStr("Wrote")
      [] fn = "deletePath" -> VBool(TRUE)
      [] fn = "listFiles" -> VEntries(Readdir(path))
      [] OTHER -> VUndefined

RootExistsAfter(step) == rootExists \/ step = "mkdirRoot"

\* withDeadline(operation, deadlineInfo, label): the operation is an
\* argument, so it has been started when withDeadline looks at the clock.
\* The call goes on in flight (with a timer when there is a deadline), or
\* is rejected at once while the operation it started runs on.
BeginStep(op, step) ==
    LET started == [op EXCEPT !.step = step]
        mode == DeadlineMode(deadline, now)
    IN CASE mode = "plain" ->
                [started EXCEPT !.st = "inflight", !.timer = NoTimer]
         [] mode = "race" ->
                [started EXCEPT !.st = "inflight", !.timer = TimerExpiry(deadline, now)]
         [] mode = "reject" ->
                [started EXCEPT !.st = "settling", !.timer = NoTimer,
                                !.why = "expired",
                                !.err = CreateTimeoutError(StepLabel(op.kind, step))]

FreeSlot == CHOOSE i \in Slots : ops[i].st = "free" /\ \A j \in Slots : j < i => ops[j].st # "free"

\* defineAsyncFunction, lines 200-225: the guest calls sdk.<fn>(arg).  The
\* call is tracked (line 210) and its handler runs up to its first await
\* that waits for the host, or up to the error it throws before one.
\* cont: the script attached a continuation to the returned promise
\* instead of (or besides) awaiting it.
GuestCall(fn, arg, text, cont) ==
    /\ GuestActive
    /\ \E i \in Slots : ops[i].st = "free"
    /\ fn = "delegateTask" => hasDelegateHandler
    /\ LET i == FreeSlot
           fresh == [FreeOp EXCEPT !.kind = fn, !.arg = arg, !.cont = cont,
                                   !.text = IF fn = "writeFile" THEN text ELSE ""]
           checked == CheckArguments(fn, workspaceRoot, arg)
           begun ==
               CASE fn = "exec" ->
                        [fresh EXCEPT !.st = "settling", !.err = Err("TypeError", ExecMissing)]
                 [] fn = "delegateTask" -> BeginStep(fresh, "delegate")
                 [] OTHER ->
                        IF ~checked.ok
                        THEN [fresh EXCEPT !.st = "settling", !.err = Err(fn, checked.message)]
                        ELSE BeginStep([fresh EXCEPT !.path = checked.segs],
                                       FirstStep(fn, workspaceReady))
       IN /\ ops' = [ops EXCEPT ![i] = begun]
          /\ pendingSdkOperations' = pendingSdkOperations \cup {i}
    /\ gerr' = NoErr
    /\ UNCHANGED <<now, pc, timeoutMs, hasDelegateHandler, deadline, start, vm, running,
                   gmain, contActive, scriptPromise, drainSet, pumpVars, mainTimer,
                   result, logs, fsVars, sessions, helperVars, consoleVars, contextVars, todoVars>>

(***************************************************************************)
(* Host events of the bridged calls.                                       *)
(***************************************************************************)
\* what is left of a slot when its guest promise would be settled after the
\* context has been disposed: the conversion at line 215 has no context to
\* work on and the guest never sees the outcome
AfterDispose(op) ==
    IF op.st # "settling" THEN op
    ELSE IF op.why = "" THEN DoneOp
    ELSE [op EXCEPT !.st = "detached"]

\* the bridge lets the operations of an execution complete in the order
\* of their calls only
AwaitedInOrder(i) ==
    /\ ops[i].st = "inflight"
    /\ \A j \in Slots : j < i => ops[j].st # "inflight"

\* defineAsyncFunction, lines 212-223: every call runs its own async
\* function, which awaits its own handler and nothing else
Awaited(i) == ops[i].st = "inflight"

\* the flag says whether the operation that completed last created the root
ReadyWhileCreating(ready, step) == step = "mkdirRoot"

\* ensureWorkspaceRootExists, part_001 lines 29-35: the flag is set when
\* the awaited mkdir of the root has succeeded, and nothing clears it
ReadyAfter(ready, step) == ready \/ step = "mkdirRoot"

\* the timer of a race that has settled stays armed
KeepTimeout(op) == op

\* withDeadline, lines 359-364: .finally(() => clearTimeout(timeoutId))
ClearTimeout(op) == [op EXCEPT !.timer = NoTimer]

\* A filesystem operation (or the delegate's child session) of a call in
\* flight completes.  The handler goes on to its next operation or returns;
\* lines 214-221 then settle the guest promise.
HostOpComplete(i) ==
    /\ Quiet
    /\ Awaited(i)
    /\ LET op == ops[i]
           path == StepPath(workspaceRoot, op.path, op.step)
           failure == StepFailure(op.step, path)
           next == NextStep(op.kind, op.step, IsDirectory(path))
           cleared == ClearTimeout(op)
           settled == [cleared EXCEPT !.st = "settling"]
           begun ==
               IF failure # ""
               THEN \* deletePath, lines 96-98: a missing target is no error
                    IF op.step = "lstat" /\ failure = "ENOENT"
                    THEN [settled EXCEPT !.value = VBool(FALSE)]
                    ELSE [settled EXCEPT !.err = Err(op.step, failure)]
               ELSE IF next = "" THEN [settled EXCEPT !.value = ReturnValue(op.kind, path)]
               ELSE BeginStep(cleared, next)
       IN /\ disk' = DiskAfter(op.step, path, op.text)
          /\ rootExists' = RootExistsAfter(op.step)
          /\ workspaceReady' = ReadyAfter(workspaceReady, op.step)
          /\ ops' = [ops EXCEPT ![i] = IF vm = "disposed" THEN AfterDispose(begun) ELSE begun]
    /\ UNCHANGED <<now, pc, timeoutMs, hasDelegateHandler, deadline, start, vm, running,
                   gmain, gerr, contActive, scriptPromise, pendingSdkOperations, drainSet,
                   pumpVars, mainTimer, result, logs, workspaceRoot, sessions, helperVars, consoleVars, contextVars, todoVars>>

\* withDeadline, lines 352-357: the timer of a call in flight fires.  The
\* call rejects with the timeout error; no caller passes an
\* abortController, so the operation itself runs on
OpTimerFire(i) ==
    /\ Quiet
    /\ ops[i].st = "inflight"
    /\ ops[i].timer # NoTimer
    /\ now >= ops[i].timer
    /\ LET rejected == [ops[i] EXCEPT !.st = "settling", !.timer = NoTimer,
                                      !.why = "timedOut",
                                      !.err = CreateTimeoutError(StepLabel(ops[i].kind, ops[i].step))]
       IN ops' = [ops EXCEPT ![i] = IF vm = "disposed" THEN AfterDispose(rejected) ELSE rejected]
    /\ UNCHANGED <<now, pc, timeoutMs, hasDelegateHandler, deadline, start, vm, running,
                   gmain, gerr, contActive, scriptPromise, pendingSdkOperations, drainSet,
                   pumpVars, mainTimer, result, logs, fsVars, sessions, helperVars, consoleVars, contextVars, todoVars>>

\* an operation that withDeadline gave up on completes on the disk
DetachedComplete(i) ==
    /\ Quiet
    /\ ops[i].why # ""
    /\ LET path == StepPath(workspaceRoot, ops[i].path, ops[i].step) IN
          /\ disk' = DiskAfter(ops[i].step, path, ops[i].text)
          /\ rootExists' = RootExistsAfter(ops[i].step)
    /\ ops' = [ops EXCEPT ![i] = IF ops[i].st = "detached" THEN DoneOp
                                 ELSE [ops[i] EXCEPT !.why = ""]]
    /\ UNCHANGED <<now, pc, timeoutMs, hasDelegateHandler, deadline, start, vm, running,
                   gmain, gerr, contActive, scriptPromise, pendingSdkOperations, drainSet,
                   pumpVars, mainTimer, result, logs, workspaceRoot, workspaceReady, sessions, helperVars, consoleVars, contextVars, todoVars>>

\* lines 203-209: the settlement callback of a settled call runs
\* executePendingJobs; the guest code waiting for the call is resumed
\* the guest promise is rejected with an error that says nothing of what
\* the host's error said
BuildGenericErrorHandle(error) == Err("Error", "boom")

\* buildQuickjsErrorHandle, lines 289-298: the guest error is created from
\* the message of the host's error
BuildQuickjsErrorHandle(error) == Err(error.label, error.what)

Settlement(i) ==
    /\ running = "none"
    /\ ops[i].st = "settling"
    /\ vm = "live"
    /\ ops' = [ops EXCEPT ![i].st = "processing"]
    /\ running' = "jobs"
    /\ IF gmain = GAwait(i)
       THEN gmain' = GRun /\ gerr' = IF ops[i].err = NoErr THEN NoErr
                                       ELSE BuildQuickjsErrorHandle(ops[i].err)
       ELSE UNCHANGED <<gmain, gerr>>
    /\ contActive' = ops[i].cont
    /\ UNCHANGED <<now, pc, timeoutMs, hasDelegateHandler, deadline, start, vm,
                   scriptPromise, pendingSdkOperations, drainSet, pumpVars,
                   mainTimer, result, logs, fsVars, sessions, helperVars, consoleVars, contextVars, todoVars>>

(***************************************************************************)
(* startQuickjsJobPump, lines 96-132.  The pump is its two variables       *)
(* active and timer and the ticks that schedule (setImmediate) has put     *)
(* into the event loop and cancel has not taken out again.                 *)
(***************************************************************************)
PumpHandles == {1, 2}
PumpState == [active |-> pumpActive, timer |-> pumpTimer, scheduled |-> pumpScheduled]
SetPump(p) == pumpActive' = p.active /\ pumpTimer' = p.timer /\ pumpScheduled' = p.scheduled

\* line 119: timer = schedule(tick), a handle the event loop does not hold yet
Schedule(p) ==
    LET handle == CHOOSE h \in PumpHandles : h \notin p.scheduled
    IN [p EXCEPT !.timer = handle, !.scheduled = @ \cup {handle}]

\* the event loop takes the tick of a handle out and calls it; line 108
TickEntry(p, handle) == [p EXCEPT !.timer = NoHandle, !.scheduled = @ \ {handle}]

\* lines 115-117: executePendingJobs threw
TickCatch(p) == [p EXCEPT !.active = FALSE]

\* lines 118-120: the jobs are done
TickExit(p) == IF p.active THEN Schedule(p) ELSE p

\* lines 103-122: active = true, timer = null and the first tick, called
\* at once
StartQuickjsJobPump ==
    TickExit(TickEntry([active |-> TRUE, timer |-> NoHandle, scheduled |-> {}], NoHandle))

\* the stop function leaves the scheduled tick in the event loop
StopKeepsTimer(p) == [p EXCEPT !.active = FALSE]

\* the stop function, lines 124-130
StopJobPump(p) ==
    [active |-> FALSE, timer |-> NoHandle,
     scheduled |-> IF p.timer # NoHandle THEN p.scheduled \ {p.timer} ELSE p.scheduled]

\* the outcome of the 'code execution' race when the script's promise wins:
\* lines 59-76
ScriptResult ==
    IF scriptPromise.st = "resolved"
    THEN SuccessResult(Dump(scriptPromise.value), logs, now - start)
    ELSE FailureResult(scriptPromise.error, logs, now - start)

\* lines 205-207 and 23-25: the jobs are done, the deferred is disposed and
\* the call leaves the pending set.  If the script's promise settled, the
\* reaction attached by resolvePromise ran among the jobs.
EndJobs ==
    /\ running = "jobs"
    /\ gmain.st # "run"
    /\ ~contActive
    /\ running' = "none"
    /\ \E i \in SlotsIn("processing") :
          /\ ops' = [ops EXCEPT ![i] = IF ops[i].why = "" THEN DoneOp
                                       ELSE [ops[i] EXCEPT !.st = "detached"]]
          /\ pendingSdkOperations' = pendingSdkOperations \ {i}
          /\ drainSet' = drainSet \ {i}
    /\ IF pc = "waiting" /\ scriptPromise.st # "pending"
       THEN /\ pc' = "finally"
            /\ result' = ScriptResult
            /\ SetPump(StopJobPump(PumpState))
            /\ mainTimer' = NoTimer
       ELSE UNCHANGED <<pc, result, pumpVars, mainTimer>>
    /\ UNCHANGED <<now, timeoutMs, hasDelegateHandler, deadline, start, vm, gmain, gerr,
                   contActive, scriptPromise, logs, fsVars, sessions, helperVars, consoleVars, contextVars, todoVars>>

(***************************************************************************)
(* executeCodeBlock, lines 49-89: the wait for the script and the exit.    *)
(***************************************************************************)
\* evalCode has returned the script's promise.  Lines 49-53: the pump is
\* started, resolvePromise attaches its reaction and withDeadline either
\* rejects at once (the finally of line 54 then stops the pump and line 77
\* builds the failure) or arms the timer of the race.
EvalEnd ==
    /\ running = "eval"
    /\ gmain.st \in {"await", "never", "done", "interrupted"}
    /\ running' = "none"
    /\ LET mode == DeadlineMode(deadline, now) IN
       IF mode = "reject"
       THEN /\ pc' = "finally"
            /\ result' = FailureResult(CreateTimeoutError("code execution"), logs, now - start)
            /\ UNCHANGED <<pumpVars, mainTimer>>
       ELSE /\ pc' = "waiting"
            /\ SetPump(StartQuickjsJobPump)
            /\ mainTimer' = IF mode = "race" THEN TimerExpiry(deadline, now) ELSE NoTimer
            /\ UNCHANGED result
    /\ UNCHANGED <<now, timeoutMs, hasDelegateHandler, deadline, start, vm, gmain, gerr,
                   contActive, scriptPromise, ops, pendingSdkOperations,
                   drainSet, logs, fsVars, sessions, helperVars, consoleVars, contextVars, todoVars>>

\* startQuickjsJobPump, lines 107-121: a tick of the pump runs
\* executePendingJobs; the reaction of a settled script promise runs and
\* the race of line 53 is won by the script
PumpTick ==
    /\ Quiet
    /\ pc = "waiting"
    /\ pumpActive
    /\ scriptPromise.st # "pending"
    /\ pc' = "finally"
    /\ result' = ScriptResult
    /\ \E handle \in pumpScheduled :
          SetPump(StopJobPump(TickExit(TickEntry(PumpState, handle))))
    /\ mainTimer' = NoTimer
    /\ UNCHANGED <<now, timeoutMs, hasDelegateHandler, deadline, start, vm, running,
                   gmain, gerr, contActive, scriptPromise, ops, pendingSdkOperations, drainSet, logs, fsVars, sessions, helperVars, consoleVars, contextVars, todoVars>>

\* startQuickjsJobPump, lines 112-117: executePendingJobs throws in a tick
\* (an error of the engine, not of a job, which is returned); the catch
\* block clears active and the tick is not scheduled again
PumpThrows ==
    /\ Quiet
    /\ pc = "waiting"
    /\ pumpActive
    /\ \E handle \in pumpScheduled : SetPump(TickCatch(TickEntry(PumpState, handle)))
    /\ UNCHANGED <<now, pc, timeoutMs, hasDelegateHandler, deadline, start, vm, running,
                   gmain, gerr, contActive, scriptPromise, ops, pendingSdkOperations,
                   drainSet, mainTimer, result, logs, fsVars, sessions, helperVars,
                   consoleVars, contextVars, todoVars>>

\* withDeadline, lines 352-357, for the race of line 53: the timer wins
MainTimerFire ==
    /\ Quiet
    /\ pc = "waiting"
    /\ mainTimer # NoTimer
    /\ now >= mainTimer
    /\ pc' = "finally"
    /\ result' = FailureResult(CreateTimeoutError("code execution"), logs, now - start)
    /\ SetPump(StopJobPump(PumpState))
    /\ mainTimer' = NoTimer
    /\ UNCHANGED <<now, timeoutMs, hasDelegateHandler, deadline, start, vm, running,
                   gmain, gerr, contActive, scriptPromise, ops, pendingSdkOperations, drainSet, logs, fsVars, sessions, helperVars, consoleVars, contextVars, todoVars>>

\* waitForPendingOperations, lines 372-377: the promises to await are the
\* members of the pending set at the moment of the call
WaitSet(pendingOperations) == pendingOperations

\* lines 86-89 once every awaited promise has settled: the context is
\* disposed and the caller receives the result (whose logs are the array
\* of line 14 as it is then)
Return ==
    /\ vm' = "disposed"
    /\ pc' = "returned"
    /\ result' = [result EXCEPT !.logs = logs]
    /\ gmain' = IF gmain.st = "await" THEN GNever ELSE gmain
    /\ gerr' = NoErr

\* line 87: waitForPendingOperations is called
BeginDrain ==
    /\ Quiet
    /\ pc = "finally"
    /\ IF WaitSet(pendingSdkOperations) = {}
       THEN Return /\ UNCHANGED drainSet
       ELSE /\ drainSet' = WaitSet(pendingSdkOperations)
            /\ pc' = "draining"
            /\ UNCHANGED <<vm, result, gmain, gerr>>
    /\ UNCHANGED <<now, timeoutMs, hasDelegateHandler, deadline, start, running,
                   contActive, scriptPromise, ops, pendingSdkOperations,
                   pumpVars, mainTimer, logs, fsVars, sessions, helperVars, consoleVars, contextVars, todoVars>>

\* line 376: Promise.allSettled has settled
FinishDrain ==
    /\ Quiet
    /\ pc = "draining"
    /\ drainSet = {}
    /\ Return
    /\ UNCHANGED <<now, timeoutMs, hasDelegateHandler, deadline, start, running,
                   contActive, scriptPromise, ops, pendingSdkOperations,
                   drainSet, pumpVars, mainTimer, logs, fsVars, sessions, helperVars, consoleVars, contextVars, todoVars>>

(***************************************************************************)
(* Time.                                                                   *)
(***************************************************************************)
TimerDue ==
    \/ pc = "waiting" /\ mainTimer # NoTimer /\ now >= mainTimer
    \/ \E i \in Slots : ops[i].st = "inflight" /\ ops[i].timer # NoTimer /\ now >= ops[i].timer

\* something of the execution is still going on
Busy ==
    \/ pc \in {"eval", "waiting", "finally", "draining"}
    \/ \E i \in Slots : ops[i].st \notin {"free", "done"}

\* how far the clock is followed: without a deadline it is read only for
\* durationMs
Horizon == IF deadline = NoDeadline THEN 1 ELSE MaxTime

\* The clock advances while the host is idle.  A timer that is due, a pump
\* tick with a reaction to run (setImmediate) and the continuation of
\* executeCodeBlock are taken before it does.
Tick ==
    /\ Quiet
    /\ Busy
    /\ now < Horizon
    /\ ~TimerDue
    /\ ~(pc = "waiting" /\ pumpActive /\ scriptPromise.st # "pending")
    /\ pc \notin {"finally"}
    /\ ~(pc = "draining" /\ drainSet = {})
    /\ now' = now + 1
    /\ UNCHANGED <<execVars, fsVars, sessions, helperVars, consoleVars, contextVars, todoVars>>

Next ==
    \/ LoadFails
    \/ EvalCodeSyntaxError
    \/ EvalCode
    \/ \E call \in GuestCalls, cont \in BOOLEAN : GuestCall(call.fn, call.arg, call.text, cont)
    \/ \E i \in Slots : GuestAwaitOp(i)
    \/ GuestAwaitNever
    \/ \E v \in ReturnValues : GuestReturn(v)
    \/ GuestThrow
    \/ GuestSpin
    \/ GuestContEnd
    \/ EvalEnd
    \/ \E i \in Slots : HostOpComplete(i)
    \/ \E i \in Slots : OpTimerFire(i)
    \/ \E i \in Slots : DetachedComplete(i)
    \/ \E i \in Slots : Settlement(i)
    \/ EndJobs
    \/ PumpTick
    \/ MainTimerFire
    \/ BeginDrain
    \/ FinishDrain
    \/ Tick

Spec == Init /\ [][Next]_vars

(***************************************************************************)
(* Properties of executeCodeBlock, checked under Spec.                     *)
(***************************************************************************)
\* C1: executeCodeBlock never throws and never returns a rejected promise:
\* whatever fails, the caller receives an ExecutionResult.  As a state
\* predicate: the call never ends with its promise rejected.
C1_NeverRejects == pc # "threw"

\* the script of the execution never completes on its own: it is left
\* waiting for ever, or it was stopped inside an endless loop
NeverCompletes == gmain.st \in {"never", "interrupted"}

\* C2: a script that never completes on its own, run with a positive
\* timeout, makes executeCodeBlock return success:false with an
\* errorMessage that says 'timed out'.
C2_TimedOutResult ==
    (pc = "returned" /\ deadline # NoDeadline /\ NeverCompletes)
        => (~result.success /\ IsTimeoutError(result.errorMessage))

\* C4: at the moment the context is disposed (and from then on) no bridged
\* call of the execution is still in flight.
C4_NothingInFlightAtDispose ==
    vm = "disposed" => \A i \in Slots : ops[i].st # "inflight"

\* C5: the deadline is fixed once, when the execution starts, and every
\* operation a bridged call waits for (each internal step included) is
\* raced against a timer set for that deadline, never for a later instant.
C5_SharedDeadline ==
    deadline # NoDeadline =>
        /\ deadline = start + timeoutMs
        /\ \A i \in Slots : ops[i].st = "inflight" => ops[i].timer = deadline
        /\ pc = "waiting" => mainTimer = deadline

\* C5 witness: the third operation of a writeFile (after the creation of
\* the root and of the directory) is in flight later than the start
C5_Witness ==
    \E i \in Slots :
        /\ ops[i].st = "inflight"
        /\ ops[i].step = "writeFile"
        /\ now > start
        /\ ops[i].timer = deadline

\* C6: a bridged call made when the deadline has passed rejects at once
\* and its host operation is never started.  As a state predicate: no call
\* rejected on entry to withDeadline has an operation running.
C6_NotStartedAfterDeadline == \A i \in Slots : ops[i].why # "expired"

\* C7: once a call has been rejected by the deadline timer, its host
\* operation has no further effect on the disk.
C7_NoEffectAfterTimeout ==
    [][\A i \in Slots :
          (ops[i].why = "timedOut" /\ DetachedComplete(i))
              => (disk' = disk /\ rootExists' = rootExists)]_vars

\* C19: a call of sdk.exec runs its command and resolves (with code,
\* stdout and stderr).  As a state predicate: no settled sdk.exec call is
\* rejected for another reason than the deadline.
C19_ExecResolves ==
    \A i \in Slots :
        (ops[i].kind = "exec" /\ ops[i].st \in {"settling", "processing"}) =>
            (ops[i].err = NoErr \/ IsTimeoutError(ops[i].err))

\* C22: whenever a bridged call of the execution is outstanding once
\* evalCode has returned, the job pump of the execution is active.
C22_PumpWhileOutstanding ==
    (pc \in {"waiting", "finally", "draining"} /\ \E i \in Slots : ops[i].st = "inflight")
        => pumpActive

HostError(e) ==
    e \notin {NoErr, Err("Error", "boom"), Err("InternalError", "interrupted")}

\* the script let the rejection of a bridged call escape
UncaughtHostError ==
    /\ pc = "returned"
    /\ scriptPromise.st = "rejected"
    /\ HostError(scriptPromise.error)

\* C24 as stated: whenever the rejection of a failing host call (a timed
\* out one included) is left uncaught, the execution result is
\* success:false with errorMessage equal to the host error's message.
C24_UncaughtIsHostMessage ==
    UncaughtHostError
        => (~result.success /\ result.errorMessage = scriptPromise.error)

\* C24: a script is resumed with the host error of the failing call it
\* awaited and can still return normally, and when it lets the rejection escape before
\* the deadline the execution result is success:false with errorMessage
\* equal to the host error's message.
C24_UncaughtInTimeIsHostMessage ==
    /\ (running # "none" /\ gmain.st = "run" /\ gerr # NoErr)
           => /\ \E i \in Slots : ops[i].st = "processing" /\ gerr = ops[i].err
              /\ ENABLED GuestReturn(VNum(2))
    /\ (UncaughtHostError /\ (deadline # NoDeadline => scriptPromise.at < deadline))
           => (~result.success /\ result.errorMessage = scriptPromise.error)

\* C24 witness: an escaped path was refused, the script let the rejection
\* go and the result carries the refusal
C24_Witness ==
    /\ UncaughtHostError
    /\ deadline # NoDeadline
    /\ scriptPromise.at < deadline
    /\ ~IsTimeoutError(scriptPromise.error)
    /\ ~result.success
    /\ result.errorMessage = scriptPromise.error

\* the call of slot i has been made and is not over: its guest promise is
\* not settled, or its settlement has not been processed
Outstanding(i) == ops[i].st \in {"inflight", "settling", "processing"}

\* C33: every invocation of a bridged function settles its guest promise
\* exactly once, and its tracked entry is in the execution's pending set
\* from the invocation until that settlement has been processed, when the
\* deferred is disposed and the entry is removed: a call is in the pending
\* set exactly while it is outstanding, and a call that is over has had its
\* settlement processed.
C33_TrackedUntilSettled ==
    \A i \in Slots : (i \in pendingSdkOperations) <=> Outstanding(i)

\* C35: whichever side wins the race in withDeadline, the timeout timer is
\* cleared when the race settles: a capability call that is not in flight
\* has no timer armed, nor has the wait for the script once it is over, and
\* an execution without a deadline has no timer at all.
C35_TimerClearedWhenSettled ==
    /\ \A i \in Slots : ops[i].st # "inflight" => ops[i].timer = NoTimer
    /\ pc # "waiting" => mainTimer = NoTimer
    /\ deadline = NoDeadline =>
          (mainTimer = NoTimer /\ \A i \in Slots : ops[i].timer = NoTimer)

\* C35 witness: under a deadline, the operation of one call won its race
\* and the timer of another call won its own
C35_Witness ==
    /\ deadline # NoDeadline
    /\ \E i, j \in Slots :
          /\ ops[i].st = "settling" /\ ops[i].why = "" /\ ops[i].err = NoErr
          /\ ops[i].step # ""
          /\ ops[j].why = "timedOut"

SuccessKeys == {"success", "value", "logs", "formattedValue", "durationMs"}
FailureKeys == {"success", "logs", "errorMessage", "errorStack", "durationMs"}

\* C9: every ExecutionResult carries durationMs and logs and exactly one
\* outcome: success:true with value and formattedValue and no errorMessage,
\* or success:false with errorMessage and errorStack and no value.
C9_ResultShape ==
    pc \in {"finally", "draining", "returned"} =>
        /\ DOMAIN result = (IF result.success THEN SuccessKeys ELSE FailureKeys)
        /\ result.durationMs >= 0

\* C9 witness: a failure and nothing else is what a timed-out execution returns
C9_Witness ==
    /\ pc = "returned"
    /\ ~result.success
    /\ IsTimeoutError(result.errorMessage)

\* the script returned its value before the deadline
CompletedInTime ==
    /\ scriptPromise.st = "resolved"
    /\ deadline # NoDeadline => scriptPromise.at < deadline

\* C10 as stated: a script that completes before the deadline and returns
\* a value built from null, booleans, numbers, strings, arrays and plain
\* maps gives success:true with a value deep-equal to the returned one.
C10_DeepEqual ==
    (pc = "returned" /\ CompletedInTime)
        => (result.success /\ result.value = scriptPromise.value)

\* C10 amended: the same for values whose numbers inside arrays and maps
\* are finite.
C10_DeepEqualFinite ==
    (pc = "returned" /\ CompletedInTime /\ ~HasNestedNaN(scriptPromise.value))
        => (result.success /\ result.value = scriptPromise.value)

\* C10 witness: a map went through the JSON text of vm.dump, under a deadline
C10_Witness ==
    /\ pc = "returned"
    /\ deadline # NoDeadline
    /\ CompletedInTime
    /\ scriptPromise.value = VMap("k", VNull)
    /\ result.success

(***************************************************************************)
(* Numbers and texts of the command line and of sdk.delegateTask's input.  *)
(* A number is counted in halves, so that 0.5 and 2.5 are numbers of the   *)
(* model; NaN and Infinity are numbers too.  A text is its body and        *)
(* whether white space surrounds it.                                       *)
(***************************************************************************)
JNum(h) == [t |-> "number", k |-> "finite", h |-> h]
JNaN == [t |-> "number", k |-> "nan", h |-> 0]
JInfinity == [t |-> "number", k |-> "infinity", h |-> 0]
JInt(n) == JNum(2 * n)

VText(pad, body) == [t |-> "string", s |-> body, pad |-> pad]
\* String.prototype.trim
Trim(text) == [text EXCEPT !.pad = FALSE]
EmptyText == VText(FALSE, "")

\* Number(value): undefined and text that is no numeral give NaN, null and
\* blank text give 0
ToNumber(v) ==
    CASE v.t = "number" -> v
      [] v.t = "null" -> JInt(0)
      [] v.t = "boolean" -> IF v.b THEN JInt(1) ELSE JInt(0)
      [] v.t = "string" -> CASE v.s = "" -> JInt(0)
                             [] v.s = "3" -> JInt(3)
                             [] v.s = "0.5" -> JNum(1)
                             [] v.s = "Infinity" -> JInfinity
                             [] OTHER -> JNaN
      [] OTHER -> JNaN

NumberIsFinite(x) == x.k = "finite"
\* Math.floor of a finite number, as an integer
MathFloor(x) == x.h \div 2

\* config.js, line 5: Number(process.env.CODE_LOOP_MAX_ITERATIONS ?? 100)
DefaultMaxIterations(env) == IF env = VUndefined THEN JInt(100) ELSE ToNumber(env)

\* options.js, ensurePositiveInteger
EnsurePositiveInteger(value, fallback) ==
    LET parsed == ToNumber(value) IN
    IF NumberIsFinite(parsed) /\ parsed.h > 0 THEN JInt(MathFloor(parsed)) ELSE fallback

\* parseCliArgs: options.maxIterations for a --max-iterations flag (VUndefined: not
\* given) and the default of the environment
ParsedMaxIterations(flag, default) ==
    EnsurePositiveInteger(IF flag = VUndefined THEN default ELSE ToNumber(flag), default)

\* the default value of normalizeDelegateTaskInput's second parameter
DefaultCap == 6

\* normalizeDelegateTaskInput, lines 165-171: the cap that is applied
IterationsCap(maxIterationsCap) ==
    LET numericCap == ToNumber(IF maxIterationsCap = VUndefined THEN JInt(DefaultCap)
                               ELSE maxIterationsCap)
    IN IF NumberIsFinite(numericCap) /\ numericCap.h > 0 THEN MathFloor(numericCap) ELSE 6

\* the iterations asked for are granted whatever the cap is
NormalizeIterationsUncapped(requested, maxIterationsCap) ==
    LET requestedIterations == ToNumber(requested) IN
    IF NumberIsFinite(requestedIterations) /\ requestedIterations.h > 0
    THEN Max(1, MathFloor(requestedIterations))
    ELSE Max(1, IterationsCap(maxIterationsCap))

\* normalizeDelegateTaskInput, lines 173-178: effectiveIterations
NormalizeIterations(requested, maxIterationsCap) ==
    LET cap == IterationsCap(maxIterationsCap)
        requestedIterations == ToNumber(requested)
        fallbackIterations == cap
        normalizedIterations ==
            IF NumberIsFinite(requestedIterations) /\ requestedIterations.h > 0
            THEN MathFloor(requestedIterations)
            ELSE fallbackIterations
    IN Max(1, IF normalizedIterations <= cap THEN normalizedIterations ELSE cap)

\* a plain object given to sdk.delegateTask, and an entry of its artifacts
DelegateInput(task, contextArtifacts, maxIterations) ==
    [t |-> "object", task |-> task, contextArtifacts |-> contextArtifacts,
     maxIterations |-> maxIterations]
Artifact(path, description, updated) ==
    [t |-> "object", path |-> path, description |-> description, last_updated |-> updated]

\* value[name], undefined for a property the value does not have
Prop(value, name) ==
    IF value.t = "object" /\ name \in DOMAIN value THEN value[name] ELSE VUndefined

\* !value
Falsy(value) ==
    \/ value.t \in {"undefined", "null"}
    \/ value.t = "string" /\ value.s = "" /\ ~value.pad
    \/ value.t = "number" /\ (value.k = "nan" \/ (value.k = "finite" /\ value.h = 0))
    \/ value.t = "boolean" /\ ~value.b

\* typeof value === 'object'
TypeofObject(value) == value.t \in {"object", "array", "null"}

\* typeof value === 'string' ? value.trim() : ''
TrimmedText(value) == IF value.t = "string" THEN Trim(value) ELSE EmptyText

\* text || undefined
OrUndefined(text) == IF text = EmptyText THEN VUndefined ELSE text

\* normalizeDelegateTaskInput, lines 182-201, and normalizeArtifactDescriptor:
\* the entry that is kept, or null
NormalizeArtifact(artifact) ==
    IF Falsy(artifact) \/ ~TypeofObject(artifact) THEN VNull
    ELSE LET pathText == TrimmedText(Prop(artifact, "path")) IN
         IF pathText = EmptyText THEN VNull
         ELSE Artifact(pathText,
                       OrUndefined(TrimmedText(Prop(artifact, "description"))),
                       OrUndefined(TrimmedText(Prop(artifact, "last_updated"))))

\* lines 180-203: the artifacts of an array, mapped and filtered
NormalizeArtifacts(value) ==
    IF value.t # "array" THEN <<>>
    ELSE LET mapped == [i \in 1..Len(value.items) |-> NormalizeArtifact(value.items[i])]
         IN SelectSeq(mapped, LAMBDA a : a # VNull)

RequiresInputObject == "sdk.delegateTask requires an input object."
RequiresTask == "sdk.delegateTask requires a non-empty task string."

ThrownError(message) == [ok |-> FALSE, message |-> message]

\* every input with a task is accepted
NormalizeAnyTask(rawInput, maxIterationsCap) ==
    IF Falsy(rawInput) \/ ~TypeofObject(rawInput) THEN ThrownError(RequiresInputObject)
    ELSE [ok |-> TRUE, task |-> TrimmedText(Prop(rawInput, "task")),
          contextArtifacts |-> NormalizeArtifacts(Prop(rawInput, "contextArtifacts")),
          maxIterations |-> NormalizeIterations(Prop(rawInput, "maxIterations"),
                                                maxIterationsCap)]

\* normalizeDelegateTaskInput: what it returns, or the error it throws
NormalizeDelegateTaskInput(rawInput, maxIterationsCap) ==
    IF Falsy(rawInput) \/ ~TypeofObject(rawInput) THEN ThrownError(RequiresInputObject)
    ELSE LET task == TrimmedText(Prop(rawInput, "task")) IN
         IF task = EmptyText THEN ThrownError(RequiresTask)
         ELSE [ok |-> TRUE, task |-> task,
               contextArtifacts |-> NormalizeArtifacts(Prop(rawInput, "contextArtifacts")),
               maxIterations |-> NormalizeIterations(Prop(rawInput, "maxIterations"),
                                                     maxIterationsCap)]

(***************************************************************************)
(* The result of a delegation (cli.js, parseDelegateAgentResult), read     *)
(* from the messages of the delegate's session.                            *)
(***************************************************************************)
\* of: the session whose loop pushed the message
Message(role, content, of) == [role |-> role, content |-> content, of |-> of]

\* a content part that carries text, and one that carries none (a tool call)
TextPart(text) == [t |-> "object", text |-> text]
ToolCallPart == [t |-> "object", toolName |-> "run"]

\* the texts of the model's replies
ProseText == "All done."
CodeText == "<fence>js return 1; <fence>"
TwoBlocksText == "<fence>js return 1; <fence> then <fence>js return 2; <fence>"
JsonNullText == "null"
JsonNumberText == "42"
JsonResultText == "{\"success\":false,\"summary\":\" s \",\"artifacts\":[{\"path\":\"p\"}]}"
FencedResultText == "Result: <fence>json {\"success\":false,\"summary\":\" s \",\"artifacts\":[{\"path\":\"p\"}]} <fence>"
JsonBareText == "{\"note\":1}"

\* the object the two result texts denote, and the one of JsonBareText
JsonResult ==
    [t |-> "object", success |-> VBool(FALSE), summary |-> VText(TRUE, "s"),
     artifacts |-> VArr(<<Artifact(VText(FALSE, "p"), VUndefined, VUndefined)>>)]
JsonBare == [t |-> "object", note |-> JInt(1)]

\* tryParseDelegateJson, lines 277-278: the trimmed inside of the first
\* code fence (written <fence> here), or the text itself
FencePayload(body) ==
    CASE body = CodeText -> "js return 1;"
      [] body = FencedResultText -> JsonResultText
      [] OTHER -> body

\* JSON.parse throws on the payload
JsonThrows(payload) ==
    payload \notin {JsonNullText, JsonNumberText, JsonResultText, JsonBareText}

\* JSON.parse of a payload it accepts
JsonParseText(payload) ==
    CASE payload = JsonNullText -> VNull
      [] payload = JsonNumberText -> JInt(42)
      [] payload = JsonResultText -> JsonResult
      [] payload = JsonBareText -> JsonBare

\* tryParseDelegateJson: the parsed value, null for no text and for a
\* payload JSON.parse throws on
TryParseDelegateJson(text) ==
    IF text = EmptyText THEN VNull
    ELSE LET payload == FencePayload(text.s) IN
         IF JsonThrows(payload) THEN VNull ELSE JsonParseText(payload)

\* the text of a content part
PartText(part) ==
    IF part.t = "string" THEN part
    ELSE IF part.t = "object" /\ "text" \in DOMAIN part THEN part.text
    ELSE EmptyText

RECURSIVE JoinParts(_)
\* the parts joined, for parts of which at most one holds text
JoinParts(texts) ==
    IF texts = <<>> THEN EmptyText
    ELSE LET rest == JoinParts(Tail(texts)) IN
         IF Head(texts) = EmptyText THEN rest
         ELSE IF rest = EmptyText THEN Head(texts)
         ELSE VText(Head(texts).pad \/ rest.pad, Head(texts).s \o rest.s)

\* coerceContentToText
CoerceContentToText(content) ==
    CASE content.t = "string" -> content
      [] content.t = "array" ->
             JoinParts([i \in 1..Len(content.items) |-> PartText(content.items[i])])
      [] content.t = "object" /\ "text" \in DOMAIN content -> content.text
      [] OTHER -> EmptyText

\* the last message whose role is assistant: its index, 0 for none
LastAssistant(messages) ==
    LET found == {i \in 1..Len(messages) : messages[i].role = "assistant"} IN
    IF found = {} THEN 0 ELSE CHOOSE i \in found : \A j \in found : j <= i

NoFinalResponse == VText(FALSE, "Delegate agent did not produce a final response.")
EmptyResponse == VText(FALSE, "Delegate agent returned an empty response.")

DelegateResult(success, summary, artifacts) ==
    [success |-> success, summary |-> summary, artifacts |-> artifacts]

\* a reply that is no JSON counts as a success
ParseAssumingSuccess(messages) ==
    LET last == LastAssistant(messages) IN
    IF last = 0 THEN DelegateResult(TRUE, NoFinalResponse, <<>>)
    ELSE DelegateResult(TRUE, Trim(CoerceContentToText(messages[last].content)), <<>>)

\* parseDelegateAgentResult
ParseDelegateAgentResult(messages) ==
    LET last == LastAssistant(messages) IN
    IF last = 0 THEN DelegateResult(FALSE, NoFinalResponse, <<>>)
    ELSE LET rawText == Trim(CoerceContentToText(messages[last].content))
             parsed == TryParseDelegateJson(rawText)
             summaryText == TrimmedText(Prop(parsed, "summary"))
             successValue == Prop(parsed, "success")
         IN IF Falsy(parsed)
            THEN DelegateResult(FALSE,
                                IF rawText = EmptyText THEN EmptyResponse ELSE rawText,
                                <<>>)
            ELSE DelegateResult(IF successValue.t = "boolean" THEN successValue.b ELSE TRUE,
                                IF summaryText # EmptyText THEN summaryText ELSE rawText,
                                NormalizeArtifacts(Prop(parsed, "artifacts")))

(***************************************************************************)
(* Agent sessions and delegation (cli.js, agent/session.js).  A session    *)
(* asks the model, runs the code blocks of the reply and asks again; the   *)
(* delegateTask handler runs a session of its own.                         *)
(***************************************************************************)
HandlerFunction == "function"
HandlerNull == "null"
HandlerUndefined == "undefined"

\* cli.js, lines 137-145: the delegateTaskHandler in the options of the
\* session a delegation creates
ChildDelegateTaskHandler(baseHandler) == HandlerNull

\* session.js, line 46: executeCodeBlock(block, timeout) is called without
\* sandboxOptions, whose delegateTaskHandler is then undefined
LoopSandboxHandler(sessionHandler) == HandlerUndefined

\* sdk.delegateTask is installed whatever the handler is
InstallsAlways(handler) == TRUE

\* installSdk, line 184: sdk.delegateTask is installed for a function
InstallsDelegateTask(handler) == handler = HandlerFunction

Min(a, b) == IF a <= b THEN a ELSE b

\* buildDelegateUserPrompt: the text names the task, the artifacts and the
\* iterations of the normalized input
DelegatePrompt(input) ==
    [t |-> "string", s |-> "You are a delegated sub-agent.", pad |-> FALSE,
     task |-> input.task, contextArtifacts |-> input.contextArtifacts,
     maxIterations |-> input.maxIterations]

NoDelegateResult == [success |-> FALSE]
NoInput == [t |-> "none"]

\* A session: who delegated it (0: the command line), its options, the
\* count of its loop, where it is ("model", "exec", "done"), whether the
\* execution it runs exposes sdk.delegateTask and the deadline of that
\* execution, and its messages.  For a delegate, call is the state of the
\* sdk.delegateTask call that created it ("pending", "resolved",
\* "rejected"), budget the deadline of the execution that made the call
\* and result what the call resolved with.  asked and thrown:
\* the input of the last sdk.delegateTask call of the session's script and
\* the error the handler threw on it.  blocks: the code blocks of the last
\* reply; started and returned: for how many of them executeCodeBlock was
\* called and has returned.
Session(parent, handler, maxIterations, prompt) ==
    [parent |-> parent, handler |-> handler, maxIterations |-> maxIterations,
     iteration |-> 0, at |-> "model", exposes |-> FALSE, deadline |-> NoDeadline,
     blocks |-> 0, started |-> 0, returned |-> 0,
     messages |-> prompt, call |-> IF parent = 0 THEN "none" ELSE "pending",
     budget |-> NoDeadline, result |-> NoDelegateResult, asked |-> NoInput,
     thrown |-> ""]

RECURSIVE Depth(_)
\* how many delegations lead to a session
Depth(s) == IF sessions[s].parent = 0 THEN 0 ELSE 1 + Depth(sessions[s].parent)

\* run, lines 26-32, and submit: the session of the command line holds the
\* handler, the system prompt and the user's text
DelegateInit ==
    /\ ExecInit
    /\ FsInit
    /\ rootExists
    /\ ~hasDelegateHandler
    /\ \E m \in 1..MaxIterations :
          sessions = <<Session(0, HandlerFunction, JInt(m),
                               <<Message("system", VText(FALSE, "system"), 1),
                                 Message("user", VText(FALSE, "prompt"), 1)>>)>>
    /\ HelperInit

\* the loop goes on while the count has not passed the limit
LoopContinuesInclusive(iteration, maxIterations) ==
    \/ maxIterations.k = "infinity"
    \/ maxIterations.k = "finite" /\ 2 * iteration <= maxIterations.h

\* loop, line 29: iteration < this.options.maxIterations
LoopContinues(iteration, maxIterations) ==
    \/ maxIterations.k = "infinity"
    \/ maxIterations.k = "finite" /\ 2 * iteration < maxIterations.h

\* extractCodeBlocks: the reply holds a fenced block that is not blank
\* (with or without a language tag; json is none of the tags, so it
\* becomes part of the block)
HasCodeBlock(body) == body \in {CodeText, FencedResultText, TwoBlocksText}

\* extractCodeBlocks, lines 96-107: how many blocks the reply holds
CodeBlockCount(body) ==
    CASE body = TwoBlocksText -> 2
      [] HasCodeBlock(body) -> 1
      [] OTHER -> 0

\* formatExecutionFeedback: the header names the block
FormatExecutionFeedback(blockIndex) ==
    CASE blockIndex = 1 -> "feedback"
      [] blockIndex = 2 -> "feedback 2"
      [] OTHER -> "feedback n"

\* executeCodeBlock is called for every block of the reply at once
AllBlocksStarted(returned, blocks) == blocks

\* loop, lines 44-46: the for loop awaits executeCodeBlock, so the next
\* block is started when the one before it has returned
BlocksStarted(returned, blocks) == IF returned < blocks THEN returned + 1 ELSE blocks

\* every message goes to one array that all sessions share
PushToAll(all, s, pushed) ==
    [i \in DOMAIN all |-> [all[i] EXCEPT !.messages = @ \o pushed]]

\* this.messages.push(...): the messages go to the session's own array
Push(all, s, pushed) == [all EXCEPT ![s].messages = @ \o pushed]

\* session.js, line 46, and createDeadlineInfo: the deadline of a code
\* block run by session s is counted from the start of that execution
ExecutionDeadline(s, clock) == CreateDeadlineInfo(timeoutMs, clock)

\* loop, lines 29-46: the model is asked once more; its messages are
\* pushed; a reply without a code block ends the loop, one with a code
\* block is executed by executeCodeBlock, whose sandboxOptions hold
\* sandboxHandler as delegateTaskHandler
LoopStep(s, body, sandboxHandler) ==
    /\ sessions[s].at = "model"
    /\ LoopContinues(sessions[s].iteration, sessions[s].maxIterations)
    /\ LET withCode == HasCodeBlock(body)
           pushed == Push(sessions, s, <<Message("assistant", VText(FALSE, body), s)>>)
       IN sessions' = [pushed EXCEPT
              ![s].iteration = @ + 1,
              ![s].at = IF withCode THEN "exec" ELSE "done",
              ![s].deadline = IF withCode THEN ExecutionDeadline(s, now) ELSE NoDeadline,
              ![s].blocks = CodeBlockCount(body),
              ![s].started = BlocksStarted(0, CodeBlockCount(body)),
              ![s].returned = 0,
              ![s].exposes = withCode /\ InstallsDelegateTask(sandboxHandler)]
    /\ UNCHANGED <<now, execVars, fsVars, helperVars, consoleVars, contextVars, todoVars>>

\* session.js, line 46: the loop as it is written
InvokeModel(s, body) == LoopStep(s, body, LoopSandboxHandler(sessions[s].handler))

\* loop, lines 29 and 55: the iteration limit is reached
LoopLimit(s) ==
    /\ sessions[s].at = "model"
    /\ ~LoopContinues(sessions[s].iteration, sessions[s].maxIterations)
    /\ sessions' = [sessions EXCEPT ![s].at = "done"]
    /\ UNCHANGED <<now, execVars, fsVars, helperVars, consoleVars, contextVars, todoVars>>

\* executeCodeBlock, lines 13 and 38, called with the session's handler as
\* sandboxOptions.delegateTaskHandler (the third parameter the loop leaves out)
ExecuteWithHandler(s) == LoopStep(s, CodeText, sessions[s].handler)

\* installSdk, line 186: rawInput ?? {}
DelegatePayload(rawInput) ==
    IF rawInput.t \in {"undefined", "null"}
    THEN DelegateInput(VUndefined, VUndefined, VUndefined)
    ELSE rawInput

\* installSdk, lines 185-192, and createDelegateTaskHandler, lines 131-148:
\* the script calls sdk.delegateTask.  The handler is started whatever the
\* deadline says; it throws on an input it does not accept, and otherwise
\* creates a session and submits the prompt to it.  withDeadline rejects
\* the call at once when the budget is used up.
DelegateTask(s, rawInput) ==
    /\ sessions[s].at = "exec"
    /\ sessions[s].exposes
    /\ Len(sessions) < MaxSessions
    /\ LET normalizedInput == NormalizeDelegateTaskInput(DelegatePayload(rawInput),
                                                         sessions[s].maxIterations)
           child == Len(sessions) + 1
           delegateSession ==
               Session(s, ChildDelegateTaskHandler(sessions[s].handler),
                       JInt(normalizedInput.maxIterations),
                       <<Message("system", VText(FALSE, "system"), child),
                         Message("user", DelegatePrompt(normalizedInput), child)>>)
           asked == [sessions EXCEPT ![s].asked = rawInput, ![s].thrown = ""]
       IN IF ~normalizedInput.ok
          THEN sessions' = [asked EXCEPT ![s].thrown = normalizedInput.message]
          ELSE sessions' = Append(asked,
                   [delegateSession EXCEPT
                       !.budget = sessions[s].deadline,
                       !.call = IF DeadlineMode(sessions[s].deadline, now) = "reject"
                                THEN "rejected" ELSE "pending"])
    /\ UNCHANGED <<now, execVars, fsVars, helperVars, consoleVars, contextVars, todoVars>>

\* createDelegateTaskHandler, lines 148-152: the delegate's session is over
\* and the call resolves with what its messages say
DelegateReturn(c) ==
    /\ sessions[c].call = "pending"
    /\ sessions[c].at = "done"
    /\ sessions' = [sessions EXCEPT
           ![c].call = "resolved",
           ![c].result = ParseDelegateAgentResult(sessions[c].messages)]
    /\ UNCHANGED <<now, execVars, fsVars, helperVars, consoleVars, contextVars, todoVars>>

\* withDeadline, lines 352-357, around the handler (installSdk, line 187):
\* the deadline of the execution that made the call passes; the call
\* rejects and the delegate's session runs on
DelegateTimeout(c) ==
    /\ sessions[c].call = "pending"
    /\ sessions[sessions[c].parent].deadline # NoDeadline
    /\ now >= sessions[sessions[c].parent].deadline
    /\ sessions' = [sessions EXCEPT ![c].call = "rejected"]
    /\ UNCHANGED <<now, execVars, fsVars, helperVars, consoleVars, contextVars, todoVars>>

\* loop, lines 44-52: an execution is over (every call it made has
\* settled, executeCodeBlock line 87) and its feedback is pushed; the next
\* block of the reply is executed, or the model is asked again
ExecuteEnd(s) ==
    /\ sessions[s].at = "exec"
    /\ \A c \in DOMAIN sessions : sessions[c].parent = s => sessions[c].call # "pending"
    /\ LET blockIndex == sessions[s].returned + 1
           more == blockIndex < sessions[s].blocks
           pushed == Push(sessions, s,
                          <<Message("user", VText(FALSE, FormatExecutionFeedback(blockIndex)), s)>>)
       IN sessions' = [pushed EXCEPT
              ![s].returned = blockIndex,
              ![s].started = BlocksStarted(blockIndex, sessions[s].blocks),
              ![s].at = IF more THEN "exec" ELSE "model",
              ![s].exposes = more /\ @,
              ![s].deadline = IF more THEN ExecutionDeadline(s, now) ELSE NoDeadline]
    /\ UNCHANGED <<now, execVars, fsVars, helperVars, consoleVars, contextVars, todoVars>>

\* time passes while a session is at work
DelegateTick ==
    /\ now < MaxTime
    /\ \E s \in DOMAIN sessions : sessions[s].at # "done"
    /\ \A c \in DOMAIN sessions :
          ~(/\ sessions[c].call = "pending"
            /\ sessions[sessions[c].parent].deadline # NoDeadline
            /\ now >= sessions[sessions[c].parent].deadline)
    /\ now' = now + 1
    /\ UNCHANGED <<execVars, fsVars, sessions, helperVars, consoleVars, contextVars, todoVars>>

\* what the model replies and what scripts pass to sdk.delegateTask
Replies == {CodeText, JsonResultText, ProseText}
DelegateInputs ==
    {DelegateInput(VText(FALSE, "x"), VUndefined, VUndefined),
     DelegateInput(VText(TRUE, "y"),
                   VArr(<<VNull, Artifact(VText(TRUE, "p"), VUndefined, VUndefined)>>),
                   JInt(1)),
     DelegateInput(VText(TRUE, ""), VUndefined, VUndefined),
     VUndefined}

DelegateNext ==
    \/ \E s \in DOMAIN sessions, body \in Replies : InvokeModel(s, body)
    \/ \E s \in DOMAIN sessions : LoopLimit(s)
    \/ \E s \in DOMAIN sessions : ExecuteWithHandler(s)
    \/ \E s \in DOMAIN sessions, rawInput \in DelegateInputs : DelegateTask(s, rawInput)
    \/ \E c \in DOMAIN sessions : DelegateReturn(c)
    \/ \E s \in DOMAIN sessions : ExecuteEnd(s)

SpecDelegate == DelegateInit /\ [][DelegateNext]_vars

\* the replies of the model that session s has received
RepliesOf(s) ==
    {k \in 1..Len(sessions[s].messages) : sessions[s].messages[k].role = "assistant"}

C32_TopLevelExposes ==
    \A s \in DOMAIN sessions :
        (sessions[s].parent = 0 /\ sessions[s].handler = HandlerFunction
            /\ sessions[s].at = "exec")
        => sessions[s].exposes

\* The sessions when a reply holds no, one or two code blocks.
BlockReplies == {CodeText, TwoBlocksText, ProseText}

BlocksNext ==
    \/ \E s \in DOMAIN sessions, body \in BlockReplies : InvokeModel(s, body)
    \/ \E s \in DOMAIN sessions : LoopLimit(s)
    \/ \E s \in DOMAIN sessions : ExecuteWithHandler(s)
    \/ \E s \in DOMAIN sessions :
          DelegateTask(s, DelegateInput(VText(FALSE, "x"), VUndefined, VUndefined))
    \/ \E c \in DOMAIN sessions : DelegateReturn(c)
    \/ \E s \in DOMAIN sessions : ExecuteEnd(s)

SpecBlocks == DelegateInit /\ [][BlocksNext]_vars

\* the place of the last reply among the messages of session s
LastReply(s) == CHOOSE k \in RepliesOf(s) : \A j \in RepliesOf(s) : j <= k

\* C28: of the code blocks of a reply at most one is under execution, and
\* it is the one after those that have returned; the messages after the
\* reply are the feedback of the blocks that have returned, in the order
\* of the blocks; and the model is asked again only when every block of the
\* reply has returned.
C28_BlocksOneAtATime ==
    \A s \in DOMAIN sessions :
        LET ses == sessions[s] IN
        /\ ses.returned <= ses.started
        /\ ses.started <= ses.returned + 1
        /\ ses.started <= ses.blocks
        /\ ses.at = "exec" => ses.started = ses.returned + 1
        /\ RepliesOf(s) # {} =>
              /\ Len(ses.messages) = LastReply(s) + ses.returned
              /\ \A k \in 1..ses.returned :
                    ses.messages[LastReply(s) + k]
                        = Message("user", VText(FALSE, FormatExecutionFeedback(k)), s)
        /\ ses.at = "model" => ses.returned = ses.blocks

\* C28 witness: both blocks of a reply have returned and the model is
\* about to be asked again
C28_Witness ==
    /\ sessions[1].at = "model"
    /\ sessions[1].blocks = 2
    /\ sessions[1].returned = 2
    /\ sessions[1].iteration < MathFloor(sessions[1].maxIterations)

\* The same sessions with the clock running: what the model replies is a
\* script or the closing JSON, and every script delegates the same task.
BudgetNext ==
    \/ \E s \in DOMAIN sessions, body \in {CodeText, JsonResultText} : InvokeModel(s, body)
    \/ \E s \in DOMAIN sessions : LoopLimit(s)
    \/ \E s \in DOMAIN sessions : ExecuteWithHandler(s)
    \/ \E s \in DOMAIN sessions :
          DelegateTask(s, DelegateInput(VText(FALSE, "x"), VUndefined, VUndefined))
    \/ \E c \in DOMAIN sessions : DelegateReturn(c)
    \/ \E c \in DOMAIN sessions : DelegateTimeout(c)
    \/ \E s \in DOMAIN sessions : ExecuteEnd(s)
    \/ DelegateTick

SpecBudget == DelegateInit /\ [][BudgetNext]_vars


\* C8: no execution run by a delegated session exposes sdk.delegateTask,
\* and no session is more than one delegation away from the command line.
C8_NoGrandchild ==
    \A s \in DOMAIN sessions :
        /\ Depth(s) <= 1
        /\ Depth(s) >= 1 => ~sessions[s].exposes

\* C8 witness: a delegated session runs a code block while the session
\* that delegated waits for it
C8_Witness ==
    \E s \in DOMAIN sessions :
        /\ Depth(s) = 1
        /\ sessions[s].at = "exec"
        /\ sessions[s].call = "pending"
        /\ sessions[sessions[s].parent].at = "exec"

(***************************************************************************)
(* The workspace sdk on any root and any path argument: one execution      *)
(* without a deadline whose script makes one call.                         *)
(***************************************************************************)
\* the roots createWorkspaceSdk is given
FsRoots == {<<"a">>, <<"b", "a">>}

\* the sequences of at most n segments
SegSeqs(n) == UNION {[1..k -> Segments] : k \in 0..n}

\* the path arguments: relative and absolute strings, and no string
FsPathArgs == {Str(abs, segs) : abs \in BOOLEAN, segs \in SegSeqs(MaxPathLen)} \cup {NotAString}

\* what is below the root when a call is made: nothing; a file a, a
\* directory b and a file in it; a file a and an empty directory b
FsDisks(root) ==
    {{},
     {File(root \o <<"a">>, "old"), Directory(root \o <<"b">>), File(root \o <<"b", "a">>, "in")},
     {File(root \o <<"a">>, "old"), Directory(root \o <<"b">>)}}

FsSpecInit ==
    /\ ExecInit
    /\ timeoutMs = 0
    /\ ~hasDelegateHandler
    /\ workspaceRoot \in FsRoots
    /\ workspaceReady \in BOOLEAN
    /\ rootExists \in BOOLEAN
    /\ workspaceReady => rootExists
    /\ disk \in IF rootExists THEN FsDisks(workspaceRoot) ELSE {{}}
    /\ sessions = <<>>
    /\ HelperInit

\* the one call of the script
FsCall(fn, arg) ==
    /\ ops[1].st = "free"
    /\ GuestCall(fn, arg, "hi", FALSE)

FsNext ==
    \/ EvalCode
    \/ \E fn \in PathKinds, arg \in FsPathArgs : FsCall(fn, arg)
    \/ \E i \in Slots : GuestAwaitOp(i)
    \/ \E v \in ReturnValues : GuestReturn(v)
    \/ GuestThrow
    \/ EvalEnd
    \/ \E i \in Slots : HostOpComplete(i)
    \/ \E i \in Slots : Settlement(i)
    \/ EndJobs
    \/ PumpTick
    \/ BeginDrain
    \/ FinishDrain

SpecFs == FsSpecInit /\ [][FsNext]_vars

\* the calls that have started a filesystem operation
Started == {i \in Slots : ops[i].kind \in PathKinds /\ ops[i].step # ""}

\* C3: a path argument that resolves outside the root is rejected before
\* any filesystem operation is started, and every path on which readFile,
\* writeFile, listFiles or deletePath start a filesystem operation equals
\* or descends from the root.  A call that has started an operation has a
\* target inside the root and works on a path inside the root.
C3_Confined ==
    \A i \in Started :
        /\ IsPrefix(workspaceRoot, ops[i].path)
        /\ IsPrefix(workspaceRoot, StepPath(workspaceRoot, ops[i].path, ops[i].step))

\* C3, first half alone: the target of every call that has started an
\* operation (the root's creation included) lies inside the root
C3_TargetInside == \A i \in Started : IsPrefix(workspaceRoot, ops[i].path)

\* the deletePath calls whose promise has just been settled
DeleteSettled == {i \in Slots : ops[i].kind = "deletePath" /\ ops[i].st = "settling"}

\* the argument names the root itself
NamesRoot(arg) ==
    /\ arg.isStr
    /\ arg # EmptyString
    /\ PathResolve(workspaceRoot, arg) = workspaceRoot

\* C16: deletePath with a path that resolves to the root rejects before any
\* filesystem operation is started, and deletePath on a target that does
\* not exist resolves false.
C16_RootRefusedMissingFalse ==
    \A i \in DeleteSettled :
        /\ NamesRoot(ops[i].arg) =>
               (ops[i].err = Err("deletePath", RootRefused) /\ ops[i].step = "")
        /\ (ops[i].step = "lstat" /\ ~Exists(ops[i].path)) =>
               (ops[i].err = NoErr /\ ops[i].value = VBool(FALSE))

\* C17: a deletePath call that found its target resolves, with true when
\* the target is gone and with false when it is still there.
C17_TrueIffRemoved ==
    \A i \in DeleteSettled :
        ops[i].step \in {"rmdir", "unlink"} =>
            /\ ops[i].err = NoErr
            /\ ops[i].value = VBool(~Exists(ops[i].path))

(***************************************************************************)
(* The script  await sdk.writeFile(p, text); return await sdk.readFile(p); *)
(* on any root, disk, relative path and text, with and without a timeout.  *)
(***************************************************************************)
RoundTripPaths == {Str(FALSE, segs) : segs \in SegSeqs(MaxPathLen) \ {<<>>}}
RoundTripTexts == {"", "hi", "old"}

RoundTripInit ==
    /\ ExecInit
    /\ ~hasDelegateHandler
    /\ workspaceRoot \in FsRoots
    /\ workspaceReady \in BOOLEAN
    /\ rootExists \in BOOLEAN
    /\ workspaceReady => rootExists
    /\ disk \in IF rootExists THEN FsDisks(workspaceRoot) ELSE {{}}
    /\ sessions = <<>>
    /\ \E p \in RoundTripPaths, text \in RoundTripTexts :
          fnArgs = [fn |-> "roundTrip", path |-> p, text |-> text]
    /\ fnResult = NoCall

\* await sdk.writeFile(p, text)
RoundTripWrite ==
    /\ ops[1].st = "free"
    /\ GuestCall("writeFile", fnArgs.path, fnArgs.text, FALSE)

\* sdk.readFile(p), called once the awaited writeFile has resolved
RoundTripRead ==
    /\ ops[1].st = "processing"
    /\ ops[2].st = "free"
    /\ gmain.st = "run"
    /\ gerr = NoErr
    /\ GuestCall("readFile", fnArgs.path, "", FALSE)

\* (every job of this script runs in the settlement callback of a call, so
\* the job pump finds nothing to do)
RoundTripNext ==
    \/ EvalCode
    \/ RoundTripWrite
    \/ RoundTripRead
    \/ \E i \in Slots : GuestAwaitOp(i)
    \/ GuestReturnResult(2)
    \/ gerr # NoErr /\ GuestThrow
    \/ EvalEnd
    \/ \E i \in Slots : HostOpComplete(i)
    \/ \E i \in Slots : OpTimerFire(i)
    \/ \E i \in Slots : DetachedComplete(i)
    \/ \E i \in Slots : Settlement(i)
    \/ EndJobs
    \/ MainTimerFire
    \/ BeginDrain
    \/ FinishDrain
    \/ Tick

SpecRoundTrip == RoundTripInit /\ [][RoundTripNext]_vars

OwnTexts == {"own"}
PeerTexts == {"peer"}

ConsoleCall(cont) ==
    /\ ops[1].st = "free"
    /\ GuestCall("readFile", Str(FALSE, <<"a">>), "", cont)

ConsoleNext ==
    \/ EvalCodeSyntaxError
    \/ EvalCode
    \/ \E level \in Levels, text \in OwnTexts : GuestLog(level, text)
    \/ \E text \in PeerTexts : PeerLog("log", text)
    \/ \E cont \in BOOLEAN : ConsoleCall(cont)
    \/ GuestAwaitOp(1)
    \/ GuestAwaitNever
    \/ GuestReturn(VNum(2))
    \/ GuestThrow
    \/ GuestSpin
    \/ GuestContEnd
    \/ EvalEnd
    \/ HostOpComplete(1)
    \/ OpTimerFire(1)
    \/ DetachedComplete(1)
    \/ Settlement(1)
    \/ EndJobs
    \/ PumpTick
    \/ MainTimerFire
    \/ BeginDrain
    \/ FinishDrain
    \/ Tick

SpecConsole == Init /\ [][ConsoleNext]_vars

\* C20: the logs of the result an execution returns are the console calls
\* its script made, each with its level, in the order they were made,
\* whether the result is a success, a failure or a timeout; no entry of
\* another execution is among them.
C20_LogsAreOwnCalls ==
    pc = "returned" =>
        /\ result.logs = emitted
        /\ \A k \in 1..Len(result.logs) :
              /\ result.logs[k].level \in Levels
              /\ result.logs[k].text \notin PeerTexts

\* a timed-out execution returned the two entries its script logged, of
\* different levels, while another execution logged as well
C20_Witness ==
    /\ pc = "returned"
    /\ ~result.success
    /\ IsTimeoutError(result.errorMessage)
    /\ Len(result.logs) = 2
    /\ result.logs[1].level = "warn"
    /\ result.logs[2].level = "log"
    /\ peerLogs # <<>>

(***************************************************************************)
(* The script  const first = await sdk.listFiles('.');                     *)
(*             return [first, await sdk.listFiles('.')];                   *)
(* on any root and disk, with and without a timeout; nothing else touches  *)
(* the workspace.                                                          *)
(***************************************************************************)
ListTwiceInit ==
    /\ ExecInit
    /\ ~hasDelegateHandler
    /\ workspaceRoot \in FsRoots
    /\ workspaceReady \in BOOLEAN
    /\ rootExists \in BOOLEAN
    /\ workspaceReady => rootExists
    /\ disk \in IF rootExists THEN FsDisks(workspaceRoot) ELSE {{}}
    /\ sessions = <<>>
    /\ fnArgs = [fn |-> "listTwice", rootExisted |-> rootExists]
    /\ fnResult = NoCall

\* sdk.listFiles('.'), the first call
ListFirst ==
    /\ ops[1].st = "free"
    /\ fnResult = NoCall
    /\ GuestCall("listFiles", Str(FALSE, <<>>), "", FALSE)

\* const first = ...: the script keeps what the first call resolved with
KeepFirst ==
    /\ running # "none"
    /\ gmain.st = "run"
    /\ gerr = NoErr
    /\ ops[1].st = "processing"
    /\ fnResult = NoCall
    /\ fnResult' = [fn |-> "listFiles", out |-> ops[1].value]
    /\ UNCHANGED <<now, execVars, fsVars, sessions, fnArgs, consoleVars, contextVars, todoVars>>

\* sdk.listFiles('.'), the second call
ListSecond ==
    /\ fnResult # NoCall
    /\ ops[2].st = "free"
    /\ GuestCall("listFiles", Str(FALSE, <<>>), "", FALSE)

\* the second call has resolved and the script returns
ListReturn ==
    /\ ops[2].st = "processing"
    /\ gerr = NoErr
    /\ GuestReturn(VNum(2))

ListTwiceNext ==
    \/ EvalCode
    \/ ListFirst
    \/ KeepFirst
    \/ ListSecond
    \/ \E i \in Slots : GuestAwaitOp(i)
    \/ ListReturn
    \/ gerr # NoErr /\ GuestThrow
    \/ EvalEnd
    \/ \E i \in Slots : HostOpComplete(i)
    \/ \E i \in Slots : OpTimerFire(i)
    \/ \E i \in Slots : DetachedComplete(i)
    \/ \E i \in Slots : Settlement(i)
    \/ EndJobs
    \/ MainTimerFire
    \/ BeginDrain
    \/ FinishDrain
    \/ Tick

SpecListTwice == ListTwiceInit /\ [][ListTwiceNext]_vars

\* the second call has resolved after the script kept the first result
BothListed ==
    /\ fnResult.fn = "listFiles"
    /\ ops[2].st = "processing"
    /\ ops[2].err = NoErr

\* C29: two listFiles('.') calls made one after the other, with no write
\* or delete between them, resolve with the same set of entries; without a
\* timeout neither of them fails, whether or not the root existed before
\* the first.
C29_SameEntries ==
    /\ BothListed => ops[2].value = fnResult.out
    /\ \A i \in Slots :
          (deadline = NoDeadline /\ ops[i].st \in {"settling", "processing"})
              => ops[i].err = NoErr

\* C29 witness: the first call created the root and both calls list it
C29_Witness ==
    /\ BothListed
    /\ ~fnArgs.rootExisted
    /\ rootExists
    /\ ops[2].value = fnResult.out
    /\ fnResult.out = VEntries({})

\* ... and both calls list a root that holds a file and a directory
C29_WitnessEntries ==
    /\ BothListed
    /\ fnResult.out = VEntries({[name |-> "a", kind |-> "file"],
                                [name |-> "b", kind |-> "directory"]})

(***************************************************************************)
(* The todo manager: createTodo, updateTodo, deleteTodo and listTodos      *)
(* called one after another, without a deadline, on a project that has no  *)
(* data/todos.json yet.  A todo is its id, title, done flag and the two    *)
(* instants createdAt and updatedAt; a write to the file succeeds or       *)
(* fails.                                                                  *)
(***************************************************************************)
Todo(id, title, done, at) ==
    [id |-> id, title |-> title, done |-> done, createdAt |-> at, updatedAt |-> at]

\* JSON.stringify(todos, null, 2), line 36: the text of an array
StringifyTodos(todos) == [json |-> "array", todos |-> todos]

\* readTodosFromDisk, lines 15-32: no file gives the empty list, and so
\* does a text that is JSON but no array
ReadTodosFromDisk(db) == IF db.json = "array" THEN db.todos ELSE <<>>

\* every todo gets the same id
ConstantUUID(calls) == 1

\* randomUUID(), line 270: an id no call before has received
RandomUUID(calls) == Len(calls) + 1

\* normalizeNewTodoInput, lines 41-59: the title is trimmed, and replaced
\* when it is missing or blank
NormalizeNewTitle(payload) ==
    IF payload.t = "string" /\ payload.s # "" THEN payload.s ELSE "Untitled task"

\* todos.findIndex((todo) => todo.id === id): 0 stands for -1
FindIndex(todos, id) ==
    IF \E k \in 1..Len(todos) : todos[k].id = id
    THEN CHOOSE k \in 1..Len(todos) :
             todos[k].id = id /\ \A j \in 1..(k - 1) : todos[j].id # id
    ELSE 0

\* todos.splice(index, 1)
Splice(todos, index) ==
    SubSeq(todos, 1, index - 1) \o SubSeq(todos, index + 1, Len(todos))

\* a patch object: the fields it holds, and their values
Patch(fields, title, done) == [fields |-> fields, title |-> title, done |-> done]
TodoPatches == {Patch({"done"}, "u", TRUE), Patch({"title"}, "u", TRUE)}
NoPatch == [fields |-> "none"]

\* normalizeTodoPatch, lines 78-99, and normalizeTitle: a patch that is no
\* object or holds a blank title makes updateTodo throw
PatchThrows(patch) == patch = NoPatch \/ ("title" \in patch.fields /\ patch.title = "")

\* the patched todo is a new todo made of the patch alone
ReplaceByPatch(todo, patch) ==
    [id |-> todo.id, title |-> patch.title, done |-> patch.done,
     createdAt |-> now, updatedAt |-> now]

\* applyTodoPatch, lines 68-76: {...todo, ...patch, updatedAt}, where the
\* normalized patch holds the title and the done flag the raw patch holds
\* and never an id
ApplyTodoPatch(todo, patch) ==
    [todo EXCEPT !.title = IF "title" \in patch.fields THEN patch.title ELSE @,
                 !.done = IF "done" \in patch.fields THEN patch.done ELSE @,
                 !.updatedAt = now]

\* the ids scripts pass, and a value that is no id
NoId == 0
TodoIds == 1..MaxTodoCalls

TodoEnded(fn, id, ok) == [fn |-> fn, id |-> id, ok |-> ok]

\* createTodo, lines 265-279
CreateTodo(payload, written) ==
    /\ Len(todoCalls) < MaxTodoCalls
    /\ LET todos == ReadTodosFromDisk(todosDb)
           todo == Todo(RandomUUID(todoCalls), NormalizeNewTitle(payload), FALSE, now)
       IN /\ todosDb' = IF written THEN StringifyTodos(Append(todos, todo)) ELSE todosDb
          /\ fnResult' = [fn |-> "createTodo", ok |-> written, out |-> todo]
          /\ todoCalls' = Append(todoCalls, TodoEnded("createTodo", todo.id, written))
          /\ fnArgs' = [fn |-> "createTodo", id |-> NoId, patch |-> NoPatch]
    /\ UNCHANGED <<now, execVars, fsVars, sessions, consoleVars, contextVars, todoOps>>

\* listTodos, lines 287-289
ListTodos ==
    /\ fnResult' = [fn |-> "listTodos", ok |-> TRUE, out |-> ReadTodosFromDisk(todosDb)]
    /\ fnArgs' = [fn |-> "listTodos", id |-> NoId, patch |-> NoPatch]
    /\ UNCHANGED <<now, execVars, fsVars, sessions, consoleVars, contextVars, todoVars>>

\* getTodo, lines 281-285: null for an unknown id
GetTodo(id) ==
    /\ LET todos == ReadTodosFromDisk(todosDb)
           index == FindIndex(todos, id)
       IN fnResult' = [fn |-> "getTodo", ok |-> id # NoId,
                       out |-> IF index = 0 THEN VNull ELSE todos[index]]
    /\ fnArgs' = [fn |-> "getTodo", id |-> id, patch |-> NoPatch]
    /\ UNCHANGED <<now, execVars, fsVars, sessions, consoleVars, contextVars, todoVars>>

\* updateTodo, lines 291-302: throws on a value that is no id, on an
\* unknown id and on a patch that is no object
UpdateTodo(id, patch, written) ==
    /\ Len(todoCalls) < MaxTodoCalls
    /\ LET todos == ReadTodosFromDisk(todosDb)
           index == FindIndex(todos, id)
           ok == id # NoId /\ index # 0 /\ ~PatchThrows(patch) /\ written
           updated == IF ok THEN [todos EXCEPT ![index] = ApplyTodoPatch(@, patch)]
                      ELSE todos
       IN /\ todosDb' = IF ok THEN StringifyTodos(updated) ELSE todosDb
          /\ fnResult' = [fn |-> "updateTodo", ok |-> ok,
                          out |-> IF ok THEN updated[index] ELSE NoPatch]
          /\ todoCalls' = Append(todoCalls, TodoEnded("updateTodo", id, ok))
          /\ fnArgs' = [fn |-> "updateTodo", id |-> id, patch |-> patch]
    /\ UNCHANGED <<now, execVars, fsVars, sessions, consoleVars, contextVars, todoOps>>

\* deleteTodo, lines 304-314: false for an unknown id, and nothing is written
DeleteTodo(id, written) ==
    /\ Len(todoCalls) < MaxTodoCalls
    /\ LET todos == ReadTodosFromDisk(todosDb)
           index == FindIndex(todos, id)
           ok == id # NoId /\ (index = 0 \/ written)
       IN /\ todosDb' = IF ok /\ index # 0 THEN StringifyTodos(Splice(todos, index))
                         ELSE todosDb
          /\ fnResult' = [fn |-> "deleteTodo", ok |-> ok, out |-> index # 0]
          /\ todoCalls' = Append(todoCalls, TodoEnded("deleteTodo", id, ok))
          /\ fnArgs' = [fn |-> "deleteTodo", id |-> id, patch |-> NoPatch]
    /\ UNCHANGED <<now, execVars, fsVars, sessions, consoleVars, contextVars, todoOps>>

TodoNext ==
    \/ \E payload \in {VText(FALSE, "t"), VUndefined}, written \in BOOLEAN :
          CreateTodo(payload, written)
    \/ ListTodos
    \/ \E id \in TodoIds \cup {NoId}, patch \in TodoPatches \cup {NoPatch}, written \in BOOLEAN :
          UpdateTodo(id, patch, written)
    \/ \E id \in TodoIds \cup {NoId}, written \in BOOLEAN : DeleteTodo(id, written)

TodoInit == Init /\ timeoutMs = 0 /\ ~hasDelegateHandler /\ rootExists

SpecTodos == TodoInit /\ [][TodoNext]_vars

\* a sequence without the places that hold id
Without(ids, id) ==
    LET kept == {k \in 1..Len(ids) : ids[k] # id}
        Place(n) == CHOOSE k \in kept : Cardinality({j \in kept : j <= k}) = n
    IN [n \in 1..Cardinality(kept) |-> ids[Place(n)]]

RECURSIVE CreatedLeft(_)
\* the ids createTodo returned, in the order of the calls, without those a
\* later deleteTodo call that returned was given
CreatedLeft(calls) ==
    IF calls = <<>> THEN <<>>
    ELSE LET before == CreatedLeft(SubSeq(calls, 1, Len(calls) - 1))
             call == calls[Len(calls)]
         IN CASE call.fn = "createTodo" /\ call.ok -> Append(before, call.id)
              [] call.fn = "deleteTodo" /\ call.ok -> Without(before, call.id)
              [] OTHER -> before

\* the ids of a list of todos, in order
IdsOf(todos) == [k \in 1..Len(todos) |-> todos[k].id]

\* C30: what listTodos returns holds exactly the todos that createTodo
\* returned and no deleteTodo call since has been given, in the order of
\* their creation and under pairwise distinct ids.
C30_CreatedNotDeletedInOrder ==
    fnResult.fn = "listTodos" =>
        /\ IdsOf(fnResult.out) = CreatedLeft(todoCalls)
        /\ \A j, k \in 1..Len(fnResult.out) :
              fnResult.out[j].id = fnResult.out[k].id => j = k

\* C30 witness: three todos were created, the second was deleted, and
\* listTodos returns the first and the third
C30_Witness ==
    /\ fnResult.fn = "listTodos"
    /\ Len(todoCalls) = 4
    /\ IdsOf(fnResult.out) = <<1, 3>>

(***************************************************************************)
(* Todo calls under way at the same time (Promise.all in one script, or    *)
(* two executions).  Each call awaits readTodosFromDisk, changes the list  *)
(* it has read and awaits writeTodosToDisk; nothing orders the calls.      *)
(***************************************************************************)
\* the calls under way at once
MaxRacers == 2

DonePatch == Patch({"done"}, "u", TRUE)

\* lines 267, 293 and 306: the call has read the file
RaceRead(fn, id) ==
    /\ Len(todoOps) < MaxRacers
    /\ Len(todoCalls) + Len(todoOps) < MaxTodoCalls
    /\ todoOps' = Append(todoOps, [fn |-> fn, id |-> id,
                                   todos |-> ReadTodosFromDisk(todosDb)])
    /\ UNCHANGED <<now, execVars, fsVars, sessions, helperVars, consoleVars,
                   contextVars, todosDb, todoCalls>>

\* lines 268-278, 294-301 and 307-313: the call changes the list it read
\* and writes it; the file then holds that list
RaceWrite(k) ==
    /\ k \in DOMAIN todoOps
    /\ LET op == todoOps[k]
           index == FindIndex(op.todos, op.id)
           todo == Todo(RandomUUID(todoCalls), VText(FALSE, "t"), FALSE, now)
           written ==
               CASE op.fn = "createTodo" -> Append(op.todos, todo)
                 [] op.fn = "updateTodo" ->
                        [op.todos EXCEPT ![index] = ApplyTodoPatch(@, DonePatch)]
                 [] op.fn = "deleteTodo" -> Splice(op.todos, index)
           writes == op.fn = "createTodo" \/ index # 0
           ok == op.fn # "updateTodo" \/ index # 0
       IN /\ todosDb' = IF writes THEN StringifyTodos(written) ELSE todosDb
          /\ todoCalls' = Append(todoCalls,
                                 TodoEnded(op.fn, IF op.fn = "createTodo" THEN todo.id
                                                  ELSE op.id, ok /\ writes))
          /\ todoOps' = SubSeq(todoOps, 1, k - 1) \o SubSeq(todoOps, k + 1, Len(todoOps))
    /\ UNCHANGED <<now, execVars, fsVars, sessions, helperVars, consoleVars, contextVars>>

RaceNext ==
    \/ RaceRead("createTodo", NoId)
    \/ \E id \in TodoIds : RaceRead("updateTodo", id)
    \/ \E id \in TodoIds : RaceRead("deleteTodo", id)
    \/ \E k \in 1..MaxRacers : RaceWrite(k)

SpecTodoRace == TodoInit /\ [][RaceNext]_vars

\* the calls that resolved after changing the list
Changed(fn) == {k \in DOMAIN todoCalls : todoCalls[k].fn = fn /\ todoCalls[k].ok}
DeletedIds == {todoCalls[k].id : k \in Changed("deleteTodo")}

\* C39: no todo mutation is lost under concurrency: when the calls issued
\* have all resolved, the stored list reflects every one of them - each
\* created todo is present, each deleted one absent, each update applied.
C39_NoLostMutation ==
    todoOps = <<>> =>
        LET stored == ReadTodosFromDisk(todosDb)
            At(id) == FindIndex(stored, id)
        IN /\ \A k \in Changed("createTodo") :
                 todoCalls[k].id \notin DeletedIds => At(todoCalls[k].id) # 0
           /\ \A id \in DeletedIds : At(id) = 0
           /\ \A k \in Changed("updateTodo") :
                 todoCalls[k].id \notin DeletedIds =>
                    (At(todoCalls[k].id) # 0 /\ stored[At(todoCalls[k].id)].done)

(***************************************************************************)
(* The frame of updateTodo, deleteTodo and getTodo.  Time passes between   *)
(* the calls, so that updatedAt tells an updated todo from a created one;  *)
(* a patch holds any of the title and the done flag, none of them, a blank *)
(* title, or is no object at all.                                          *)
(***************************************************************************)
FramePatches ==
    {Patch({}, "u", TRUE), Patch({"title"}, "u", FALSE), Patch({"done"}, "u", TRUE),
     Patch({"title", "done"}, "v", TRUE), Patch({"title"}, "", FALSE)}

TodoTick ==
    /\ now < MaxTime
    /\ now' = now + 1
    /\ UNCHANGED <<execVars, fsVars, sessions, helperVars, consoleVars, contextVars,
                   todoVars>>

\* the mutations of one script
MaxFrameCalls == 3

FrameNext ==
    \/ \E written \in BOOLEAN :
          Len(todoCalls) < MaxFrameCalls /\ CreateTodo(VText(FALSE, "t"), written)
    \/ \E id \in TodoIds : GetTodo(id)
    \/ \E id \in TodoIds, patch \in FramePatches \cup {NoPatch}, written \in BOOLEAN :
          Len(todoCalls) < MaxFrameCalls /\ UpdateTodo(id, patch, written)
    \/ \E id \in TodoIds, written \in BOOLEAN :
          Len(todoCalls) < MaxFrameCalls /\ DeleteTodo(id, written)
    \/ TodoTick

SpecTodoFrame == TodoInit /\ [][FrameNext]_vars

\* the call of this step: a mutation appends to the calls ended
MutationStep(fn) == fnArgs'.fn = fn /\ Len(todoCalls') = Len(todoCalls) + 1

\* after differs from before in the patched fields and updatedAt only
PatchedOnly(before, after, patch) ==
    /\ after.id = before.id
    /\ after.createdAt = before.createdAt
    /\ after.updatedAt = now'
    /\ after.title = IF "title" \in patch.fields THEN patch.title ELSE before.title
    /\ after.done = IF "done" \in patch.fields THEN patch.done ELSE before.done

\* C31: updateTodo(id, patch) changes only the patched fields and updatedAt
\* of the todo with that id, keeping its id, createdAt and position, and
\* leaves every other todo unchanged; updateTodo on an unknown id rejects and
\* deleteTodo on an unknown id resolves false, both leaving the stored list
\* unchanged, and getTodo on an unknown id resolves null.
C31_UpdateFrame ==
    [][LET before == ReadTodosFromDisk(todosDb)
           after == ReadTodosFromDisk(todosDb')
           unknown == FindIndex(before, fnArgs'.id) = 0
       IN /\ (MutationStep("updateTodo") /\ fnResult'.ok) =>
                /\ Len(after) = Len(before)
                /\ \E i \in 1..Len(before) :
                      /\ before[i].id = fnArgs'.id
                      /\ PatchedOnly(before[i], after[i], fnArgs'.patch)
                      /\ fnResult'.out = after[i]
                      /\ \A j \in 1..Len(before) : j # i => after[j] = before[j]
          /\ (MutationStep("updateTodo") /\ unknown) =>
                ~fnResult'.ok /\ todosDb' = todosDb
          /\ (MutationStep("deleteTodo") /\ unknown) =>
                fnResult'.ok /\ fnResult'.out = FALSE /\ todosDb' = todosDb
          /\ (fnArgs'.fn = "getTodo" /\ fnArgs' # fnArgs /\ unknown) =>
                fnResult'.ok /\ fnResult'.out = VNull]_vars

\* the second of two todos was updated after it was created, and the first
\* is as it was created
C31_Witness ==
    /\ fnResult.fn = "updateTodo" /\ fnResult.ok
    /\ Len(ReadTodosFromDisk(todosDb)) = 2
    /\ ReadTodosFromDisk(todosDb)[2] = fnResult.out
    /\ fnResult.out.updatedAt > fnResult.out.createdAt
    /\ ReadTodosFromDisk(todosDb)[1].updatedAt = ReadTodosFromDisk(todosDb)[1].createdAt

(***************************************************************************)
(* Executions one after another, and one beside them.  A script stores a   *)
(* value on its context's global object and calls sdk.listFiles; the next  *)
(* executeCodeBlock call starts once the one before it has returned after  *)
(* its script stored something.                                            *)
(***************************************************************************)
\* the execution that runs beside the ones counted
PeerExecution == MaxExecutions + 1

\* the script assigns a property of globalThis
GuestStore ==
    /\ GuestActive
    /\ guestGlobal # executions
    /\ guestGlobal' = executions
    /\ UNCHANGED <<now, execVars, fsVars, sessions, helperVars, consoleVars,
                   peerGlobal, executions, todoVars>>

\* the script of an execution under way beside this one assigns the
\* property: line 16 gave it a context of its own
PeerStore ==
    /\ pc \notin {"idle", "returned", "threw"}
    /\ peerGlobal = Unset
    /\ peerGlobal' = PeerExecution
    /\ UNCHANGED <<now, execVars, fsVars, sessions, helperVars, consoleVars,
                   guestGlobal, executions, todoVars>>

IsolationCall ==
    /\ ops[1].st = "free"
    /\ GuestCall("listFiles", Str(FALSE, <<>>), "", FALSE)

\* executeCodeBlock is called again: lines 14-28 create the call's own
\* logs, context, deadline and pending set; the module's workspaceSdk
\* (line 10) and the disk are the ones the call before it left
NextExecution ==
    /\ pc = "returned"
    /\ guestGlobal = executions
    /\ executions < MaxExecutions
    /\ executions' = executions + 1
    /\ pc' = "idle"
    /\ deadline' = NoDeadline
    /\ start' = now
    /\ vm' = "none"
    /\ running' = "none"
    /\ gmain' = GIdle
    /\ gerr' = NoErr
    /\ contActive' = FALSE
    /\ scriptPromise' = Pending
    /\ ops' = [i \in Slots |-> FreeOp]
    /\ pendingSdkOperations' = {}
    /\ drainSet' = {}
    /\ pumpActive' = FALSE
    /\ mainTimer' = NoTimer
    /\ result' = NoResult
    /\ logs' = <<>>
    /\ UNCHANGED <<now, timeoutMs, hasDelegateHandler, pumpTimer, pumpScheduled, fsVars,
                   sessions, helperVars, consoleVars, guestGlobal, peerGlobal, todoVars>>

IsolationNext ==
    \/ EvalCode
    \/ GuestStore
    \/ PeerStore
    \/ IsolationCall
    \/ GuestAwaitOp(1)
    \/ GuestReturn(VNum(2))
    \/ GuestThrow
    \/ EvalEnd
    \/ HostOpComplete(1)
    \/ Settlement(1)
    \/ EndJobs
    \/ PumpTick
    \/ BeginDrain
    \/ FinishDrain
    \/ NextExecution

SpecIsolation == Init /\ [][IsolationNext]_vars

\* C25 as stated, its last part: the state executions share is not
\* mutable, so that every execution starts with the workspace sdk as the
\* module created it.
C25_SharedStateAsCreated == pc = "idle" => workspaceReady = FALSE

\* C25: every executeCodeBlock call has its context disposed when it
\* returns; on the global object of a live context a script finds only
\* what the script of that same call stored, never what the script of an
\* earlier call or of a call under way beside it stored; and the workspace
\* root path is the one the module computed.
C25_FreshContextDisposed ==
    /\ pc = "returned" => vm = "disposed"
    /\ vm = "live" => guestGlobal \in {Unset, executions}
    /\ workspaceRoot = MainRoot

\* C25 witness: the script of the first call stored a value, a script
\* beside it stored one too, and the script of the second call runs in a
\* context where the property is not set, with the sdk's flag left set
C25_Witness ==
    /\ executions = 2
    /\ vm = "live"
    /\ GuestActive
    /\ guestGlobal = Unset
    /\ peerGlobal = PeerExecution
    /\ workspaceReady

(***************************************************************************)
(* The job pump with an engine whose executePendingJobs may throw: an      *)
(* execution whose script makes at most one call and returns, throws or    *)
(* hangs.                                                                  *)
(***************************************************************************)
PumpCall ==
    /\ ops[1].st = "free"
    /\ GuestCall("readFile", Str(FALSE, <<"a">>), "", FALSE)

PumpNext ==
    \/ EvalCode
    \/ PumpCall
    \/ GuestAwaitOp(1)
    \/ GuestAwaitNever
    \/ \E v \in ReturnValues : GuestReturn(v)
    \/ GuestThrow
    \/ EvalEnd
    \/ HostOpComplete(1)
    \/ OpTimerFire(1)
    \/ DetachedComplete(1)
    \/ Settlement(1)
    \/ EndJobs
    \/ PumpTick
    \/ PumpThrows
    \/ MainTimerFire
    \/ BeginDrain
    \/ FinishDrain
    \/ Tick

SpecPump == Init /\ [][PumpNext]_vars

(***************************************************************************)
(* The bridge from host values to guest values.  A handler fulfils with    *)
(* any host value: the values of the closed set, undefined, and functions, *)
(* symbols and bigints, alone or inside an array or a map.                 *)
(***************************************************************************)
VFunction == [t |-> "function"]
VSymbol == [t |-> "symbol"]
VBigInt == [t |-> "bigint"]

HostAtoms ==
    {VUndefined, VNull, VBool(TRUE), VBool(FALSE), VNum(2), VNaN, VStr("hi"), VStr(""),
     VFunction, VSymbol, VBigInt}
HostFlat ==
    HostAtoms \cup {VArr(<<>>)} \cup {VArr(<<a>>) : a \in HostAtoms}
        \cup {VMap("k", a) : a \in HostAtoms}
HostValues ==
    HostFlat \cup {VArr(<<a, b>>) : a \in {VNum(2), VFunction}, b \in HostFlat}
        \cup {VMap("k", a) : a \in HostFlat}

RECURSIVE ConvertToQuickjsHandle(_)
\* convertToQuickjsHandle, lines 240-275: undefined, null, strings, numbers
\* and booleans become the guest's own, arrays and objects are converted
\* item by item, and anything else becomes undefined
ConvertToQuickjsHandle(value) ==
    CASE value.t \in {"undefined", "null", "string", "number", "boolean"} -> value
      [] value.t = "array" ->
             VArr([i \in DOMAIN value.items |-> ConvertToQuickjsHandle(value.items[i])])
      [] value.t = "map" -> VMap(value.key, ConvertToQuickjsHandle(value.val))
      [] OTHER -> VUndefined

ConvertInit ==
    /\ Init
    /\ timeoutMs = 0 /\ ~hasDelegateHandler /\ rootExists

\* defineAsyncFunction, lines 213-216: the handler fulfilled with value;
\* the guest promise is resolved with the converted value
BridgeValue(value) ==
    /\ fnArgs = NoCall
    /\ fnArgs' = [fn |-> "bridge", value |-> value]
    /\ fnResult' = [fn |-> "bridge", settled |-> "resolved",
                    handle |-> ConvertToQuickjsHandle(value)]
    /\ UNCHANGED <<now, execVars, fsVars, sessions, consoleVars, contextVars, todoVars>>

ConvertNext == \E value \in HostValues : BridgeValue(value)

SpecConvert == ConvertInit /\ [][ConvertNext]_vars

Unsupported(value) == value.t \in {"function", "symbol", "bigint"}

RECURSIVE HasUnsupported(_)
HasUnsupported(value) ==
    CASE value.t = "array" -> \E i \in DOMAIN value.items : HasUnsupported(value.items[i])
      [] value.t = "map" -> HasUnsupported(value.val)
      [] OTHER -> Unsupported(value)

RECURSIVE InStringForm(_, _)
\* handle is value with every function, symbol and bigint, or the array or
\* map that holds one, as a string
InStringForm(value, handle) ==
    \/ HasUnsupported(value) /\ handle.t = "string"
    \/ ~HasUnsupported(value) /\ handle = value
    \/ /\ value.t = "array" /\ handle.t = "array"
       /\ DOMAIN handle.items = DOMAIN value.items
       /\ \A i \in DOMAIN value.items : InStringForm(value.items[i], handle.items[i])
    \/ /\ value.t = "map" /\ handle.t = "map"
       /\ handle.key = value.key
       /\ InStringForm(value.val, handle.val)

\* C37: a host value returned by a capability that is outside the closed
\* set null, boolean, number, string, array, plain map (a function, symbol
\* or bigint, also inside an array or map) is either rejected (the guest
\* promise rejects) or passed to the guest in string form.
C37_RejectedOrStringified ==
    (fnResult.fn = "bridge" /\ HasUnsupported(fnArgs.value)) =>
        \/ fnResult.settled = "rejected"
        \/ InStringForm(fnArgs.value, fnResult.handle)

(***************************************************************************)
(* The workspace root.  fs.mkdir of the root may fail (the parent cannot   *)
(* be written to); the calls are the path functions with arguments that    *)
(* pass the checks and arguments that do not.                              *)
(***************************************************************************)
\* part_001 line 33: fs.mkdir(normalizedRoot) rejects, and so does the call
MkdirRootFails(i) ==
    /\ Quiet
    /\ Awaited(i)
    /\ ops[i].step = "mkdirRoot"
    /\ ~rootExists
    /\ LET failed == [ClearTimeout(ops[i]) EXCEPT !.st = "settling",
                                                  !.err = Err("mkdirRoot", "EACCES")]
       IN ops' = [ops EXCEPT ![i] = IF vm = "disposed" THEN AfterDispose(failed) ELSE failed]
    /\ UNCHANGED <<now, pc, timeoutMs, hasDelegateHandler, deadline, start, vm, running,
                   gmain, gerr, contActive, scriptPromise, pendingSdkOperations, drainSet,
                   pumpVars, mainTimer, result, logs, fsVars, sessions, helperVars,
                   consoleVars, contextVars, todoVars>>

WorkspaceCalls ==
    {[fn |-> "readFile", arg |-> Str(FALSE, <<"a">>), text |-> ""],
     [fn |-> "writeFile", arg |-> Str(FALSE, <<"b", "a">>), text |-> "hi"],
     [fn |-> "listFiles", arg |-> EmptyString, text |-> ""],
     [fn |-> "deletePath", arg |-> Str(FALSE, <<"a">>), text |-> ""],
     [fn |-> "deletePath", arg |-> Dot, text |-> ""],
     [fn |-> "readFile", arg |-> EmptyString, text |-> ""],
     [fn |-> "writeFile", arg |-> Str(FALSE, <<"..", "b">>), text |-> "hi"]}

WorkspaceNext ==
    \/ EvalCode
    \/ \E call \in WorkspaceCalls : GuestCall(call.fn, call.arg, call.text, FALSE)
    \/ \E i \in Slots : GuestAwaitOp(i)
    \/ \E v \in {VNum(2)} : GuestReturn(v)
    \/ EvalEnd
    \/ \E i \in Slots : HostOpComplete(i)
    \/ \E i \in Slots : MkdirRootFails(i)
    \/ \E i \in Slots : OpTimerFire(i)
    \/ \E i \in Slots : DetachedComplete(i)
    \/ \E i \in Slots : Settlement(i)
    \/ EndJobs
    \/ PumpTick
    \/ MainTimerFire
    \/ BeginDrain
    \/ FinishDrain
    \/ Tick

SpecWorkspace == Init /\ [][WorkspaceNext]_vars

\* the call of slot i passed its argument and confinement checks and is
\* awaiting the creation of the root
CreatingRoot(i) ==
    /\ ops[i].st = "inflight"
    /\ ops[i].step = "mkdirRoot"
    /\ CheckArguments(ops[i].kind, workspaceRoot, ops[i].arg).ok

\* C36: the workspace root is created only on demand, by a capability call
\* that has passed its argument and confinement checks; the ready flag
\* becomes true only after a root mkdir has succeeded and is never reset; a
\* failed or timed-out creation leaves it false and the next call creates
\* the root again; and the root directory exists whenever the flag is true.
C36_RootOnDemand ==
    /\ [](workspaceReady => rootExists)
    /\ [][/\ workspaceReady => workspaceReady'
          /\ (~workspaceReady /\ workspaceReady') =>
                \E i \in Slots : /\ CreatingRoot(i)
                                 /\ ops'[i].step # "mkdirRoot"
                                 /\ rootExists'
          /\ (~rootExists /\ rootExists') =>
                \E i \in Slots :
                    /\ ops[i].step = "mkdirRoot"
                    /\ CheckArguments(ops[i].kind, workspaceRoot, ops[i].arg).ok
          /\ \A i \in Slots :
                (ops[i].st = "free" /\ ops'[i].st # "free" /\ ~workspaceReady
                    /\ CheckArguments(ops'[i].kind, workspaceRoot, ops'[i].arg).ok)
                => ops'[i].step = "mkdirRoot"
          /\ \A i \in Slots :
                (CreatingRoot(i) /\ ops'[i].step = "mkdirRoot" /\ ops'[i].err # NoErr)
                => workspaceReady' = workspaceReady
         ]_vars

\* C36 witness: the creation by the first call timed out, the second call
\* created the root again and the flag is set
C36_Witness ==
    /\ workspaceReady
    /\ ops[1].step = "mkdirRoot"
    /\ ops[1].why = "timedOut"
    /\ ops[2].st = "inflight"
    /\ ops[2].step # "mkdirRoot"

(***************************************************************************)
(* The ticks of the pump one step at a time: a tick is entered, runs       *)
(* executePendingJobs and is left.  The stop function is a value of the    *)
(* host; here it is also called by code that runs during a tick.           *)
(***************************************************************************)
\* lines 107-111: the event loop calls a scheduled tick
TickBegin(handle) ==
    /\ Quiet
    /\ pc = "waiting"
    /\ scriptPromise.st = "pending"
    /\ handle \in pumpScheduled
    /\ SetPump(TickEntry(PumpState, handle))
    /\ running' = IF pumpActive THEN "tick" ELSE "none"
    /\ UNCHANGED <<now, pc, timeoutMs, hasDelegateHandler, deadline, start, vm,
                   gmain, gerr, contActive, scriptPromise, ops, pendingSdkOperations,
                   drainSet, mainTimer, result, logs, fsVars, sessions, helperVars,
                   consoleVars, contextVars, todoVars>>

\* lines 118-121: executePendingJobs has returned
TickEnd ==
    /\ running = "tick"
    /\ running' = "none"
    /\ SetPump(TickExit(PumpState))
    /\ UNCHANGED <<now, pc, timeoutMs, hasDelegateHandler, deadline, start, vm,
                   gmain, gerr, contActive, scriptPromise, ops, pendingSdkOperations,
                   drainSet, mainTimer, result, logs, fsVars, sessions, helperVars,
                   consoleVars, contextVars, todoVars>>

\* lines 114-117: executePendingJobs has thrown
TickThrows ==
    /\ running = "tick"
    /\ running' = "none"
    /\ SetPump(TickCatch(PumpState))
    /\ UNCHANGED <<now, pc, timeoutMs, hasDelegateHandler, deadline, start, vm,
                   gmain, gerr, contActive, scriptPromise, ops, pendingSdkOperations,
                   drainSet, mainTimer, result, logs, fsVars, sessions, helperVars,
                   consoleVars, contextVars, todoVars>>

\* lines 124-130, called while the tick is inside executePendingJobs
StopInTick ==
    /\ running = "tick"
    /\ pumpActive
    /\ SetPump(StopJobPump(PumpState))
    /\ UNCHANGED <<now, pc, timeoutMs, hasDelegateHandler, deadline, start, vm, running,
                   gmain, gerr, contActive, scriptPromise, ops, pendingSdkOperations,
                   drainSet, mainTimer, result, logs, fsVars, sessions, helperVars,
                   consoleVars, contextVars, todoVars>>

JobPumpNext ==
    \/ EvalCode
    \/ PumpCall
    \/ GuestAwaitOp(1)
    \/ GuestAwaitNever
    \/ \E v \in ReturnValues : GuestReturn(v)
    \/ GuestThrow
    \/ EvalEnd
    \/ HostOpComplete(1)
    \/ OpTimerFire(1)
    \/ DetachedComplete(1)
    \/ Settlement(1)
    \/ EndJobs
    \/ PumpTick
    \/ PumpThrows
    \/ \E handle \in PumpHandles : TickBegin(handle)
    \/ TickEnd
    \/ TickThrows
    \/ StopInTick
    \/ MainTimerFire
    \/ BeginDrain
    \/ FinishDrain
    \/ Tick

SpecJobPump == Init /\ [][JobPumpNext]_vars

\* C34: the job pump has at most one scheduled tick at any time; once it
\* is stopped (between two ticks or during one) no tick executes guest jobs
\* again and no pump timer remains scheduled; and the pump is stopped on
\* every path out of the wait for the script's promise.
C34_OneTickNoneAfterStop ==
    /\ [](Cardinality(pumpScheduled) <= 1)
    /\ [](~pumpActive => (pumpScheduled = {} /\ pumpTimer = NoHandle))
    /\ [](pc \in {"finally", "draining", "returned"} => ~pumpActive)
    /\ [][~pumpActive => ~(running # "tick" /\ running' = "tick")]_vars

\* C34 witness: the stop function was called during a tick, which is
\* still inside executePendingJobs
C34_Witness == pc = "waiting" /\ running = "tick" /\ ~pumpActive

\* C21: the pump does not deactivate on its own: it is active for as long
\* as executeCodeBlock waits for the script's promise (its stop function is
\* called when that wait is over, line 55).
C21_ActiveUntilStopped == pc = "waiting" => pumpActive

(***************************************************************************)
(* parseCliArgs on the three numeric flags, with the defaults of an empty  *)
(* environment.                                                            *)
(***************************************************************************)
\* config.js, line 3, and session.js, line 295
DefaultExecTimeout == 1800000
DefaultMaxOutput == 1024

\* the value that follows a numeric flag, by the number it spells; "many"
\* spells none and VUndefined stands for a flag that is not given
CliValues == {JNum(h) : h \in -2..5} \cup {JInfinity, VText(FALSE, "many"), VUndefined}

\* parseCliArgs, lines 284-356: the three numeric options
ParseCliArgs(timeout, maxIterations, maxOutputTokens) ==
    [maxIterations |-> ParsedMaxIterations(maxIterations, DefaultMaxIterations(VUndefined)),
     executionTimeoutMs |-> ParsedMaxIterations(timeout, JInt(DefaultExecTimeout)),
     maxOutputTokens |-> ParsedMaxIterations(maxOutputTokens, JInt(DefaultMaxOutput))]

CliInit ==
    /\ ExecInit
    /\ FsInit
    /\ rootExists
    /\ sessions = <<>>
    /\ fnResult = NoCall
    /\ \E timeout \in CliValues, iterations \in CliValues, tokens \in CliValues :
          fnArgs = [fn |-> "parseCliArgs", timeout |-> timeout,
                    maxIterations |-> iterations, maxOutputTokens |-> tokens]

CliCall ==
    /\ fnArgs.fn = "parseCliArgs"
    /\ fnResult = NoCall
    /\ fnResult' = [fn |-> fnArgs.fn,
                    out |-> ParseCliArgs(fnArgs.timeout, fnArgs.maxIterations,
                                         fnArgs.maxOutputTokens)]
    /\ UNCHANGED <<now, execVars, fsVars, sessions, fnArgs, consoleVars, contextVars, todoVars>>

CliNext == CliCall

SpecCliArgs == CliInit /\ [][CliNext]_vars

IsPositiveInteger(x) == x.k = "finite" /\ x.h > 0 /\ x.h % 2 = 0

\* C26: with positive integer defaults, parseCliArgs gives positive
\* integers for executionTimeoutMs, maxIterations and maxOutputTokens
\* whatever follows the three flags, and createDeadlineInfo gives a
\* deadline for that executionTimeoutMs.
C26_PositiveIntegerOptions ==
    fnResult.fn = "parseCliArgs" =>
        /\ IsPositiveInteger(fnResult.out.executionTimeoutMs)
        /\ IsPositiveInteger(fnResult.out.maxIterations)
        /\ IsPositiveInteger(fnResult.out.maxOutputTokens)
        /\ CreateDeadlineInfo(MathFloor(fnResult.out.executionTimeoutMs), 0) # NoDeadline

(***************************************************************************)
(* normalizeDelegateTaskInput called as createDelegateTaskHandler calls    *)
(* it (cli.js, line 132): on the script's input and on the maxIterations   *)
(* parseCliArgs produced.                                                  *)
(***************************************************************************)
\* the numbers up to n, in halves, with NaN and Infinity
Numbers(n) == {JNum(h) : h \in -2..(2 * n + 1)} \cup {JNaN, JInfinity}

\* what a script passes as maxIterations: a number, nothing, null, a boolean, text
RequestedValues ==
    Numbers(MaxRequested)
    \cup {VUndefined, VNull, VBool(TRUE), VText(FALSE, "many"), VText(FALSE, "3")}

\* the value of --max-iterations (VUndefined: the flag is not given) and of
\* CODE_LOOP_MAX_ITERATIONS (VUndefined: not set)
FlagValues == Numbers(MaxCap) \cup {VUndefined}
EnvValues == {VUndefined, VText(FALSE, "0.5"), VText(FALSE, "many"), VText(FALSE, "Infinity")}

\* options.maxIterations of the session that delegates.  Its loop runs a
\* code block only if 0 < maxIterations.
ParentCaps ==
    {c \in {ParsedMaxIterations(flag, DefaultMaxIterations(env)) :
                flag \in FlagValues, env \in EnvValues} :
        c.k = "infinity" \/ (c.k = "finite" /\ c.h > 0)}

NormalizeInit ==
    /\ ExecInit
    /\ FsInit
    /\ rootExists
    /\ sessions = <<>>
    /\ fnResult = NoCall
    /\ \E requested \in RequestedValues, cap \in ParentCaps :
          fnArgs = [fn |-> "normalizeDelegateTaskInput",
                    rawInput |-> DelegateInput(VText(FALSE, "x"), VUndefined, requested),
                    maxIterationsCap |-> cap]

\* cli.js, line 132
NormalizeCall ==
    /\ fnArgs.fn = "normalizeDelegateTaskInput"
    /\ fnResult = NoCall
    /\ fnResult' = [fn |-> fnArgs.fn,
                    out |-> NormalizeDelegateTaskInput(fnArgs.rawInput, fnArgs.maxIterationsCap)]
    /\ UNCHANGED <<now, execVars, fsVars, sessions, fnArgs, consoleVars, contextVars, todoVars>>

NormalizeNext == NormalizeCall

SpecNormalize == NormalizeInit /\ [][NormalizeNext]_vars

\* the cap the claim speaks of, in halves: the parent's maxIterations when it
\* is a positive finite number, 6 otherwise
ClaimedCapHalves(parentMaxIterations) ==
    IF parentMaxIterations.k = "finite" /\ parentMaxIterations.h > 0
    THEN parentMaxIterations.h
    ELSE 12

Normalized == fnResult.fn = "normalizeDelegateTaskInput" /\ fnResult.out.ok

\* C11 as stated: the maxIterations normalizeDelegateTaskInput yields is an
\* integer between 1 and the cap, whatever is requested and whatever the
\* parent's maxIterations is; 10 requested under a cap of 6 gives 6.
C11_ClampedToCap ==
    Normalized =>
        /\ fnResult.out.maxIterations \in Int
        /\ 1 <= fnResult.out.maxIterations
        /\ 2 * fnResult.out.maxIterations <= ClaimedCapHalves(fnArgs.maxIterationsCap)
        /\ (fnArgs.rawInput.maxIterations = JInt(10) /\ fnArgs.maxIterationsCap = JInt(6))
               => fnResult.out.maxIterations = 6

\* the parent's maxIterations is a positive number below 1
CapBelowOne ==
    /\ fnArgs.maxIterationsCap.k = "finite"
    /\ 0 < fnArgs.maxIterationsCap.h
    /\ fnArgs.maxIterationsCap.h < 2

\* C11 amended: the same for every parent maxIterations that is not a
\* positive number below 1; for such a cap the result is 1.
C11_ClampedToCapFromOne ==
    Normalized =>
        /\ fnResult.out.maxIterations \in Int
        /\ 1 <= fnResult.out.maxIterations
        /\ ~CapBelowOne =>
               2 * fnResult.out.maxIterations <= ClaimedCapHalves(fnArgs.maxIterationsCap)
        /\ CapBelowOne => fnResult.out.maxIterations = 1
        /\ (fnArgs.rawInput.maxIterations = JInt(10) /\ fnArgs.maxIterationsCap = JInt(6))
               => fnResult.out.maxIterations = 6

\* C11 witness: 10 iterations are asked for under a cap of 6
C11_Witness ==
    /\ Normalized
    /\ fnArgs.rawInput.maxIterations = JInt(10)
    /\ fnArgs.maxIterationsCap = JInt(6)
    /\ fnResult.out.maxIterations = 6

(***************************************************************************)
(* parseDelegateAgentResult called as the handler calls it (cli.js, lines  *)
(* 150-152): on the messages of a delegate's session that has ended.       *)
(***************************************************************************)
ReplyBodies ==
    {"", ProseText, CodeText, JsonNullText, JsonNumberText, JsonResultText,
     FencedResultText, JsonBareText}

\* the content of an assistant message: a text, or an array of parts
ReplyContents ==
    {VText(pad, body) : pad \in BOOLEAN, body \in ReplyBodies}
    \cup {VArr(<<TextPart(VText(FALSE, ProseText))>>),
          VArr(<<ToolCallPart>>),
          VArr(<<ToolCallPart, TextPart(VText(TRUE, JsonResultText))>>)}

\* what follows the prompt in the session's messages: replies of the model
\* and the feedback of executed code blocks
LaterMessages ==
    {Message("assistant", content, 1) : content \in ReplyContents}
    \cup {Message("user", VText(FALSE, "feedback"), 1)}

ParseInit ==
    /\ ExecInit
    /\ FsInit
    /\ rootExists
    /\ sessions = <<>>
    /\ fnResult = NoCall
    /\ \E k \in 0..MaxReplies : \E later \in [1..k -> LaterMessages] :
          fnArgs = [fn |-> "parseDelegateAgentResult",
                    messages |-> <<Message("system", VText(FALSE, "system"), 1),
                                   Message("user", VText(FALSE, "task"), 1)>> \o later]

\* cli.js, lines 150-152: the handler returns what parseDelegateAgentResult gives
ParseCall ==
    /\ fnArgs.fn = "parseDelegateAgentResult"
    /\ fnResult = NoCall
    /\ fnResult' = [fn |-> fnArgs.fn, ok |-> TRUE,
                    out |-> ParseDelegateAgentResult(fnArgs.messages)]
    /\ UNCHANGED <<now, execVars, fsVars, sessions, fnArgs, consoleVars, contextVars, todoVars>>

ParseNext == ParseCall

SpecParse == ParseInit /\ [][ParseNext]_vars

Parsed == fnResult.fn = "parseDelegateAgentResult"

\* the text of the last assistant message as it is, and trimmed
LastRawText == CoerceContentToText(fnArgs.messages[LastAssistant(fnArgs.messages)].content)

\* the session ended without an assistant message, or JSON.parse throws on
\* its last one
NoParsableReply ==
    \/ LastAssistant(fnArgs.messages) = 0
    \/ Trim(LastRawText) = EmptyText
    \/ JsonThrows(FencePayload(LastRawText.s))

\* C13 as stated: without an assistant message, or with a last assistant
\* message that is no JSON, delegateTask resolves with success:false, no
\* artifacts and the raw text of that message as summary.
C13_RawTextSummary ==
    (Parsed /\ NoParsableReply) =>
        /\ fnResult.ok
        /\ ~fnResult.out.success
        /\ fnResult.out.artifacts = <<>>
        /\ LastAssistant(fnArgs.messages) # 0 => fnResult.out.summary = LastRawText

\* C13 amended: the summary is the trimmed text of that message, or a fixed
\* sentence when there is no assistant message or its text is blank.
C13_TrimmedTextSummary ==
    (Parsed /\ NoParsableReply) =>
        /\ fnResult.ok
        /\ ~fnResult.out.success
        /\ fnResult.out.artifacts = <<>>
        /\ fnResult.out.summary =
               (IF LastAssistant(fnArgs.messages) = 0 THEN NoFinalResponse
                ELSE IF Trim(LastRawText) = EmptyText THEN EmptyResponse
                ELSE Trim(LastRawText))

\* what JSON.parse made of the last assistant message
LastParsed == TryParseDelegateJson(Trim(LastRawText))

\* C38: delegateTask resolves with success:true only if the child's final
\* assistant message parses to a JSON object whose success field is the
\* boolean true; a JSON object without a boolean success field, a bare JSON
\* string, number or array is not reported as success:true.
C38_SuccessOnlyIfTrue ==
    (Parsed /\ fnResult.out.success) =>
        /\ LastAssistant(fnArgs.messages) # 0
        /\ LastParsed.t = "object"
        /\ Prop(LastParsed, "success").t = "boolean"
        /\ Prop(LastParsed, "success").b

\* C13 witness: the delegate's last reply was a code block and the feedback
\* of its execution is the last message
C13_Witness ==
    /\ Parsed
    /\ Len(fnArgs.messages) = 4
    /\ fnArgs.messages[3] = Message("assistant", VText(FALSE, CodeText), 1)
    /\ fnArgs.messages[4].role = "user"
    /\ ~fnResult.out.success
    /\ fnResult.out.summary = VText(FALSE, CodeText)

(***************************************************************************)
(* The delegate handler on its own: one execution that exposes             *)
(* sdk.delegateTask makes one call with any of a range of inputs, and the  *)
(* delegate it may create runs to its end.                                 *)
(***************************************************************************)
HandlerTasks == {VUndefined, JInt(1), VText(FALSE, ""), VText(TRUE, ""), VText(TRUE, "t")}
HandlerEntries ==
    {VNull, JInt(1), VText(FALSE, "p"),
     Artifact(VUndefined, VText(FALSE, "d"), VUndefined),
     Artifact(VText(TRUE, ""), VUndefined, VUndefined),
     Artifact(VText(TRUE, "a"), VUndefined, VUndefined),
     Artifact(VText(FALSE, "b"), VText(TRUE, "d"), VText(FALSE, "")) }
HandlerArtifacts ==
    {VUndefined, VText(FALSE, "p")} \cup
    {VArr(items) : items \in UNION {[1..n -> HandlerEntries] : n \in 0..MaxArtifacts}}
HandlerInputs ==
    {VUndefined, VNull, JInt(1), VBool(TRUE), VText(FALSE, "x"), VArr(<<>>)} \cup
    {DelegateInput(task, artifacts, VUndefined) :
         task \in HandlerTasks, artifacts \in HandlerArtifacts}

HandlerCall(rawInput) ==
    /\ sessions[1].asked = NoInput
    /\ DelegateTask(1, rawInput)

HandlerNext ==
    \/ ExecuteWithHandler(1)
    \/ \E rawInput \in HandlerInputs : HandlerCall(rawInput)
    \/ \E s \in DOMAIN sessions : s # 1 /\ InvokeModel(s, JsonResultText)
    \/ \E c \in DOMAIN sessions : DelegateReturn(c)

SpecHandler == DelegateInit /\ [][HandlerNext]_vars

\* the input is not an object, or its task is no text or blank once trimmed
NotAccepted(rawInput) ==
    \/ rawInput.t # "object"
    \/ "task" \notin DOMAIN rawInput
    \/ rawInput.task.t # "string"
    \/ rawInput.task.s = ""

\* the places of an array whose entry is an object with a path that is a
\* text with something in it other than white space
KeptPlaces(items) ==
    {i \in 1..Len(items) :
        /\ items[i].t = "object"
        /\ "path" \in DOMAIN items[i]
        /\ items[i].path.t = "string"
        /\ items[i].path.s # ""}

\* out holds the entries of the kept places, in the order of the places
KeptInOrder(artifacts, out) ==
    LET items == IF artifacts.t = "array" THEN artifacts.items ELSE <<>>
        kept == KeptPlaces(items)
    IN /\ Len(out) = Cardinality(kept)
       /\ \A i \in kept :
             out[Cardinality({k \in kept : k <= i})].path.s = items[i].path.s

\* C12: a call of sdk.delegateTask whose input is not an object, or whose
\* task is blank once trimmed, is rejected and no session is created for
\* it (so no model is asked); any other call creates the delegate's
\* session, whose prompt holds the well-formed contextArtifacts entries,
\* and only those, in the order they were given.
C12_ValidatedBeforeSession ==
    \A s \in DOMAIN sessions :
        sessions[s].asked # NoInput =>
            IF NotAccepted(sessions[s].asked)
            THEN /\ sessions[s].thrown \in {RequiresInputObject, RequiresTask}
                 /\ \A c \in DOMAIN sessions : sessions[c].parent # s
            ELSE /\ sessions[s].thrown = ""
                 /\ \E c \in DOMAIN sessions :
                       /\ sessions[c].parent = s
                       /\ sessions[c].messages[2].content.task.s = sessions[s].asked.task.s
                       /\ KeptInOrder(sessions[s].asked.contextArtifacts,
                                      sessions[c].messages[2].content.contextArtifacts)

\* a call is accepted whose artifacts lose a malformed entry between two
\* well-formed ones, and the delegate has asked its model
C12_Witness ==
    /\ Len(sessions) = 2
    /\ sessions[2].iteration > 0
    /\ sessions[1].asked.t = "object"
    /\ sessions[1].asked.contextArtifacts.t = "array"
    /\ Len(sessions[1].asked.contextArtifacts.items) = 3
    /\ KeptPlaces(sessions[1].asked.contextArtifacts.items) = {1, 3}
    /\ sessions[1].asked.contextArtifacts.items[1].path.s = "b"
    /\ Len(sessions[2].messages[2].content.contextArtifacts) = 2
    /\ sessions[2].messages[2].content.contextArtifacts[1].path.s = "b"

\* the messages of session c that its own loop pushed
OwnMessages(c) == SelectSeq(sessions[c].messages, LAMBDA m : m.of = c)

\* C14: every sdk.delegateTask call has a session of its own whose
\* messages are those of its own loop and of no other session, and the
\* result a call resolves with is read from the messages of its own
\* delegate only.
C14_OwnSessionOwnResult ==
    \A c \in DOMAIN sessions :
        /\ sessions[c].messages = OwnMessages(c)
        /\ sessions[c].call = "resolved" =>
               sessions[c].result = ParseDelegateAgentResult(OwnMessages(c))

\* two calls of one execution are under way, the later one has resolved
\* with the result of its delegate while the delegate of the earlier one,
\* which ran a script, is still at work
C14_Witness ==
    /\ Len(sessions) = 3
    /\ sessions[2].parent = 1 /\ sessions[3].parent = 1
    /\ sessions[1].at = "exec"
    /\ sessions[2].call = "pending" /\ sessions[2].at = "model"
    /\ sessions[2].iteration = 1
    /\ sessions[3].call = "resolved"
    /\ sessions[3].result.summary = VText(FALSE, "s")
    /\ sessions[3].messages # sessions[2].messages

\* C15: while a delegate runs a code block, the deadline of that execution
\* is no later than the deadline of the execution that made the
\* sdk.delegateTask call.
C15_WithinParentDeadline ==
    \A c \in DOMAIN sessions :
        (sessions[c].at = "exec" /\ sessions[c].budget # NoDeadline) =>
            /\ sessions[c].deadline # NoDeadline
            /\ sessions[c].deadline <= sessions[c].budget
====
